---- MODULE Spec2Model ----
(***************************************************************************)
(* A model of sphinx-spice: the directives that build file and simulation  *)
(* blocks and fill the label registry and the gated registry               *)
(* (directive.py), the transforms that check and merge gated start/end     *)
(* pairs (transforms.py) and the post-transforms that resolve titles and   *)
(* link texts (post_transforms.py).                                        *)
(*                                                                         *)
(* Python objects live in a heap: an Element is heap[oid]; the attribute   *)
(* dictionary it uses is heap[heap[oid].attrs].attributes (two Elements    *)
(* may share one dictionary); a child list is a sequence of oids.  Title   *)
(* nodes are never mutated in place by the code, only replaced, so they    *)
(* are values.                                                             *)
(***************************************************************************)
EXTENDS Integers, Sequences, FiniteSets, TLC

VARIABLES
    hide_spice_simulations, \* app.config.hide_spice_simulations
    builder,                \* app.builder.format
    registry,               \* env.sphinx_spice_file_registry: label -> entry
    gated_registry,         \* env.sphinx_spice_file_gated_registry: docname -> record
    heap,                   \* every Element object created so far
    doctree,                \* docname -> oid of the document's root
    docname,                \* env.docname: the document being read or written
    serialno,               \* env.new_serialno() counter of the current document
    lineno,                 \* line of the next directive of the current document
    pc,                     \* the host scheduler's position in the build
    warnings,               \* logger.warning calls, in order
    errors,                 \* logger.error calls, in order
    raised,                 \* the exception that ended the build, or "none"
    last_call,              \* the last directive run: its name, label and return value
    source_len,             \* the directives and plain nodes in the build's sources
    builds,                 \* for a host that builds again: what it parsed, and the build before
    passes                  \* the transforms applied so far, in order: <<class, docname>>

vars == <<hide_spice_simulations, builder, registry, gated_registry, heap,
          doctree, docname, serialno, lineno, pc, warnings, errors, raised,
          last_call, source_len, passes, builds>>

----------------------------------------------------------------------------
(* Bounds *)

\* directive executions and plain nodes parsed in one build
MaxSteps == 3

\* start and end directives parsed in one build, where only they are parsed
MaxMarkers == 4

\* the times the host resolves and writes the documents of one build
MaxWrites == 2

\* the builds the host runs one after the other
MaxBuilds == 2

\* directive executions parsed in one build, where the host builds again
MaxBuildSteps == 2

\* directive executions and plain nodes parsed in one build, where gated
\* pairs follow one another
MaxPairSteps == 6

\* directive executions and roles parsed in one build, where references to
\* simulation blocks are given their text
MaxLinkSteps == 4

\* directive executions and roles parsed in one build, where every pass has
\* nodes of its own to change
MaxOwnerSteps == 4

\* directive executions parsed in one build, where labels are claimed twice
\* and a gated simulation block is merged and resolved
MaxEntrySteps == 4

\* directive executions parsed in one build, where a simulation block is the
\* target of another
MaxTargetSteps == 4

\* directive executions and roles parsed in one build, where references are
\* followed
MaxReferences == 2

\* the documents of the build, in the order the host reads and writes them
DocOrder == <<"d1", "d2">>
Docs == {DocOrder[i] : i \in DOMAIN DocOrder}

----------------------------------------------------------------------------
(* Names: a class or type name is a sequence of tokens, so that            *)
(* str.replace acts on it as it does on the string.                        *)

NameFile == <<"spice_file">>
NameFileStart == <<"spice_file", "-start">>
NameFileEnd == <<"spice_file", "-end">>
NameSim == <<"spice_simulation">>
NameSimStart == <<"spice_simulation", "-start">>
NameSimEnd == <<"spice_simulation", "-end">>

RECURSIVE Join(_)
Join(name) == IF name = <<>> THEN "" ELSE Head(name) \o Join(Tail(name))

----------------------------------------------------------------------------
(* Nodes *)

NoTitle == [cls |-> "none", title |-> "", children |-> <<>>]

Piece(cls, text, children, refuri) ==
    [cls |-> cls, text |-> text, children |-> children, refuri |-> refuri]

Text(s) == Piece("Text", s, <<>>, "")

RECURSIVE astext(_)
astext(p) ==
    IF p.cls \in {"Text", "math"} THEN p.text
    ELSE IF p.children = <<>> THEN ""
    ELSE astext(Head(p.children))
         \o astext([p EXCEPT !.children = Tail(p.children)])

BlankAttrs ==
    [classes |-> <<>>, ids |-> <<>>, label |-> "", docname |-> "", title |-> "",
     type |-> <<>>, hidden |-> FALSE, serial_number |-> -1, target_label |-> "",
     reftype |-> "", reftarget |-> "", refexplicit |-> FALSE, refid |-> ""]

BlankNode ==
    [cls |-> "", attrs |-> 0, attributes |-> BlankAttrs, gated |-> FALSE,
     resolved_title |-> FALSE, title |-> NoTitle, parent |-> 0,
     children |-> <<>>, inline |-> [cls |-> "", classes |-> <<>>], text |-> ""]

FileClasses == {"spice_file_node", "spice_file_enumerable_node"}
EndClasses == {"spice_file_end_node", "spice_simulation_end_node"}

\* nodes.is_spice_file_node
is_spice_file_node(n) == n.cls \in FileClasses

\* node.attributes of the Element oid of heap h
Attr(h, oid) == h[h[oid].attrs].attributes

\* a new Element with its own attribute dictionary, appended to the heap
Alloc(h, n) == Append(h, [n EXCEPT !.attrs = Len(h) + 1])

EmptyMap == [x \in {} |-> x]

Range(seq) == {seq[i] : i \in DOMAIN seq}

Put(f, k, v) == [x \in DOMAIN f \cup {k} |-> IF x = k THEN v ELSE f[x]]

\* parent += child for each child of oids: appended to the parent's child
\* list, and child.parent set
RECURSIVE setup_child(_, _, _)
setup_child(h, oids, parent) ==
    IF oids = <<>> THEN h
    ELSE setup_child([h EXCEPT ![Head(oids)].parent = parent], Tail(oids), parent)
AppendChildren(h, parent, oids) ==
    setup_child([h EXCEPT ![parent].children = @ \o oids], oids, parent)

\* The parser attaches what a directive returned to the tree: at the
\* document's top level, or (nested) inside a plain container element
\* (a block quote, a list item) that is the last top-level node.
Attach(h, root, nested, oids) ==
    IF oids = <<>> THEN h
    ELSE IF ~nested THEN AppendChildren(h, root, oids)
    ELSE LET kids == h[root].children
             open == kids # <<>> /\ h[kids[Len(kids)]].cls = "container"
         IN  IF open THEN AppendChildren(h, kids[Len(kids)], oids)
             ELSE LET h1 == Alloc(h, [BlankNode EXCEPT !.cls = "container"])
                  IN  AppendChildren(AppendChildren(h1, Len(h1), oids),
                                     root, <<Len(h1)>>)

\* state.nested_parse(self.content, ...): one paragraph per content line
RECURSIVE nested_parse(_, _, _)
nested_parse(h, n, line) ==
    IF n = 0 THEN h
    ELSE nested_parse(
             Alloc(h, [BlankNode EXCEPT !.cls = "paragraph",
                                        !.text = "body" \o ToString(line)]),
             n - 1, line)

\* node.deepcopy(): a new Element with its own attribute dictionary and
\* copies of its children; the copy is the first object added to the heap
RECURSIVE deepcopy(_, _), copy_children(_, _, _)
deepcopy(h, oid) ==
    LET c == Len(h) + 1
        h1 == Append(h, [h[oid] EXCEPT !.attrs = c,
                                       !.attributes = Attr(h, oid),
                                       !.children = <<>>, !.parent = 0])
    IN  copy_children(h1, h[oid].children, c)
copy_children(h, oids, c) ==
    IF oids = <<>> THEN h
    ELSE LET k == Len(h) + 1
         IN  copy_children(AppendChildren(deepcopy(h, Head(oids)), c, <<k>>),
                           Tail(oids), c)

----------------------------------------------------------------------------
(* directive.py *)

\* the directive or role name was parsed in the current document, with the
\* options opts, inside a container or not: a host that will build again
\* keeps it, to tell a changed source from an unchanged one
Parsed(name, opts, nested) ==
    IF builds.incremental
    THEN [builds EXCEPT !.source = Append(@, [doc |-> docname, name |-> name,
                                              opts |-> opts, nested |-> nested])]
    ELSE builds

\* the host is parsing the source of the current document
Reading == pc = "read" /\ raised = "none" /\ last_call.n < source_len

\* duplicate_labels with its test for the empty label inverted
duplicate_labels_inverted(label, reg) == label = "" /\ label \in DOMAIN reg

\* Sphinxspice_fileBaseDirective.duplicate_labels: its answer
duplicate_labels(label, reg) == label # "" /\ label \in DOMAIN reg

\* Sphinxspice_fileBaseDirective.duplicate_labels: its warning
duplicate_warning(label, reg, doc) ==
    [msg |-> "duplicate label", label |-> label, location |-> doc,
     other |-> reg[label].docname]

\* spice_fileDirective.run, for self.name = name; spice_fileStartDirective.run
\* reaches it through super().run().  It changes everything but the gated
\* registry.
FileRun(name, opts, nested) ==
    LET serial_number == serialno
        title0 == [cls |-> "spice_file_title", title |-> "",
                   children |-> <<Text("spice_file")>>]
        cls == IF opts.nonumber THEN "spice_file_node"
               ELSE "spice_file_enumerable_node"
        title == IF opts.arguments # <<>>
                 THEN [title0 EXCEPT !.children = Append(@,
                          Piece("spice_file_subtitle", "", opts.arguments, ""))]
                 ELSE title0
        h1 == nested_parse(heap, opts.content, lineno)
        section == [i \in 1..opts.content |-> Len(heap) + i]
        label == IF opts.label # "" THEN opts.label
                 ELSE docname \o "-spice_file-" \o ToString(serial_number)
        dup == duplicate_labels(label, registry)
        classes == <<name>> \o opts.class
        node == [BlankNode EXCEPT
                    !.cls = cls,
                    !.gated = (name = NameFileStart),
                    !.title = title,
                    !.attributes = [BlankAttrs EXCEPT
                        !.classes = classes, !.ids = <<label>>,
                        !.label = label, !.docname = docname,
                        !.title = "spice_file", !.type = name,
                        !.hidden = opts.hidden,
                        !.serial_number = serial_number]]
        h2 == AppendChildren(Alloc(h1, node), Len(h1) + 1, section)
        oid == Len(h2)
        h3 == deepcopy(h2, oid)
        copy == oid + 1
        ret == IF dup \/ opts.hidden THEN <<>> ELSE <<oid>>
    IN  /\ serialno' = serialno + 1
        /\ lineno' = lineno + 1
        /\ IF dup
           THEN /\ warnings' = Append(warnings,
                                      duplicate_warning(label, registry, docname))
                /\ registry' = registry
                \* the objects built so far are dropped with the content
                /\ heap' = heap
           ELSE /\ warnings' = warnings
                /\ registry' = Put(registry, label,
                                   [type |-> name, docname |-> docname,
                                    node |-> copy])
                /\ heap' = Attach(h3, doctree[docname], nested, ret)
        /\ last_call' = [n |-> last_call.n + 1, name |-> name, label |-> label,
                         ret |-> ret]
        /\ builds' = Parsed(name, opts, nested)
        /\ UNCHANGED <<source_len, hide_spice_simulations, builder, doctree, docname, pc,
                       errors, raised, passes>>

\* SimRun with a node returned for a block that has the hidden option
SimRun_shows_hidden(name, cls, opts, nested) ==
    LET target_label == opts.target
        serial_number == serialno
        title == [cls |-> "spice_simulation_title", title |-> "",
                  children |-> <<Text("spice_simulation to")>>]
        h1 == nested_parse(heap, opts.content, lineno)
        section == [i \in 1..opts.content |-> Len(heap) + i]
        label == IF opts.label # "" THEN opts.label
                 ELSE docname \o "-spice_simulation-" \o ToString(serial_number)
        dup == duplicate_labels(label, registry)
        classes == <<name>> \o opts.class
        node == [BlankNode EXCEPT
                    !.cls = cls,
                    !.title = title,
                    !.attributes = [BlankAttrs EXCEPT
                        !.target_label = target_label,
                        !.classes = classes, !.ids = <<label>>,
                        !.label = label, !.docname = docname,
                        !.title = astext(title), !.type = name,
                        !.hidden = opts.hidden,
                        !.serial_number = serial_number]]
        h2 == AppendChildren(Alloc(h1, node), Len(h1) + 1, section)
        oid == Len(h2)
        ret == IF dup THEN <<>> ELSE <<oid>>
    IN  /\ serialno' = serialno + 1
        /\ lineno' = lineno + 1
        /\ IF hide_spice_simulations
           THEN /\ UNCHANGED <<warnings, registry, heap>>
                /\ last_call' = [n |-> last_call.n + 1, name |-> name,
                                 label |-> opts.label, ret |-> <<>>]
           ELSE /\ IF dup
                   THEN /\ warnings' = Append(warnings,
                               duplicate_warning(label, registry, docname))
                        /\ registry' = registry
                        /\ heap' = heap
                   ELSE /\ warnings' = warnings
                        \* the registry holds the node itself, not a copy
                        /\ registry' = Put(registry, label,
                                           [type |-> name, docname |-> docname,
                                            node |-> oid])
                        /\ heap' = Attach(h2, doctree[docname], nested, ret)
                /\ last_call' = [n |-> last_call.n + 1, name |-> name,
                                 label |-> label, ret |-> ret]
        /\ builds' = Parsed(name, opts, nested)
        /\ UNCHANGED <<source_len, hide_spice_simulations, builder, doctree, docname, pc,
                       errors, raised, passes>>

\* spice_simulationDirective.run, for self.name = name and the node class
\* self.spice_simulation_node = cls
SimRun(name, cls, opts, nested) ==
    LET target_label == opts.target
        serial_number == serialno
        title == [cls |-> "spice_simulation_title", title |-> "",
                  children |-> <<Text("spice_simulation to")>>]
        h1 == nested_parse(heap, opts.content, lineno)
        section == [i \in 1..opts.content |-> Len(heap) + i]
        label == IF opts.label # "" THEN opts.label
                 ELSE docname \o "-spice_simulation-" \o ToString(serial_number)
        dup == duplicate_labels(label, registry)
        classes == <<name>> \o opts.class
        node == [BlankNode EXCEPT
                    !.cls = cls,
                    !.title = title,
                    !.attributes = [BlankAttrs EXCEPT
                        !.target_label = target_label,
                        !.classes = classes, !.ids = <<label>>,
                        !.label = label, !.docname = docname,
                        !.title = astext(title), !.type = name,
                        !.hidden = opts.hidden,
                        !.serial_number = serial_number]]
        h2 == AppendChildren(Alloc(h1, node), Len(h1) + 1, section)
        oid == Len(h2)
        ret == IF dup \/ opts.hidden THEN <<>> ELSE <<oid>>
    IN  /\ serialno' = serialno + 1
        /\ lineno' = lineno + 1
        /\ IF hide_spice_simulations
           THEN /\ UNCHANGED <<warnings, registry, heap>>
                /\ last_call' = [n |-> last_call.n + 1, name |-> name,
                                 label |-> opts.label, ret |-> <<>>]
           ELSE /\ IF dup
                   THEN /\ warnings' = Append(warnings,
                               duplicate_warning(label, registry, docname))
                        /\ registry' = registry
                        /\ heap' = heap
                   ELSE /\ warnings' = warnings
                        \* the registry holds the node itself, not a copy
                        /\ registry' = Put(registry, label,
                                           [type |-> name, docname |-> docname,
                                            node |-> oid])
                        /\ heap' = Attach(h2, doctree[docname], nested, ret)
                /\ last_call' = [n |-> last_call.n + 1, name |-> name,
                                 label |-> label, ret |-> ret]
        /\ builds' = Parsed(name, opts, nested)
        /\ UNCHANGED <<source_len, hide_spice_simulations, builder, doctree, docname, pc,
                       errors, raised, passes>>

NewGate(type) ==
    [start |-> <<>>, end |-> <<>>, sequence |-> <<>>, msg |-> <<>>, type |-> type]

\* the start directives' bookkeeping in the gated registry
record_start(gr, doc, type, msgname, line) ==
    LET g == IF doc \in DOMAIN gr THEN gr[doc] ELSE NewGate(type)
    IN  Put(gr, doc, [g EXCEPT !.start = Append(@, line),
                               !.sequence = Append(@, "S"),
                               !.msg = Append(@, <<Join(msgname), line>>)])

\* the end directives' bookkeeping in the gated registry
record_end(gr, doc, type, msgname, line) ==
    LET g == IF doc \in DOMAIN gr THEN gr[doc] ELSE NewGate(type)
    IN  Put(gr, doc, [g EXCEPT !.end = Append(@, line),
                               !.sequence = Append(@, "E"),
                               !.msg = Append(@, <<Join(msgname), line>>)])

spice_fileDirective_run(opts, nested) ==
    /\ Reading
    /\ FileRun(NameFile, opts, nested)
    /\ UNCHANGED gated_registry

spice_simulationDirective_run(opts, nested) ==
    /\ Reading
    /\ SimRun(NameSim, "spice_simulation_node", opts, nested)
    /\ UNCHANGED gated_registry

spice_fileStartDirective_run(opts, nested) ==
    /\ Reading
    /\ gated_registry' = record_start(gated_registry, docname, "spice_file",
                                      NameFileStart, lineno)
    /\ FileRun(NameFileStart, opts, nested)

spice_simulationStartDirective_run(opts, nested) ==
    /\ Reading
    /\ gated_registry' = record_start(gated_registry, docname,
                                      "spice_simulation", NameSimStart, lineno)
    /\ SimRun(NameSimStart, "spice_simulation_start_node", opts, nested)

\* spice_fileEndDirective.run and spice_simulationEndDirective.run
EndRun(name, cls, type, nested) ==
    LET h1 == Alloc(heap, [BlankNode EXCEPT !.cls = cls])
    IN  /\ gated_registry' = record_end(gated_registry, docname, type, name, lineno)
        /\ heap' = Attach(h1, doctree[docname], nested, <<Len(h1)>>)
        /\ lineno' = lineno + 1
        /\ last_call' = [n |-> last_call.n + 1, name |-> name, label |-> "",
                         ret |-> <<Len(h1)>>]
        /\ builds' = Parsed(name, [label |-> ""], nested)
        /\ UNCHANGED <<source_len, hide_spice_simulations, builder, registry, doctree,
                       docname, serialno, pc, warnings, errors, raised, passes>>

spice_fileEndDirective_run(nested) ==
    /\ Reading
    /\ EndRun(NameFileEnd, "spice_file_end_node", "spice_file", nested)

spice_simulationEndDirective_run(nested) ==
    /\ Reading
    /\ EndRun(NameSimEnd, "spice_simulation_end_node", "spice_simulation", nested)

----------------------------------------------------------------------------
(* The host parser: plain content, cross-reference roles, end of source *)

\* a paragraph of plain text
Paragraph(nested) ==
    LET h1 == Alloc(heap, [BlankNode EXCEPT !.cls = "paragraph",
                                            !.text = "p" \o ToString(lineno)])
    IN  /\ Reading
        /\ heap' = Attach(h1, doctree[docname], nested, <<Len(h1)>>)
        /\ lineno' = lineno + 1
        /\ last_call' = [n |-> last_call.n + 1, name |-> <<"paragraph">>,
                         label |-> "", ret |-> <<Len(h1)>>]
        /\ builds' = Parsed(<<"paragraph">>, [label |-> ""], nested)
        /\ UNCHANGED <<source_len, hide_spice_simulations, builder, registry, gated_registry,
                       doctree, docname, serialno, pc, warnings, errors, raised,
                       passes>>

\* a cross-reference role, {ref}`target`, {numref}`target` or {any}`target`,
\* with or without a text of the author's: a pending_xref around one inline
Role(reftype, reftarget, refexplicit, nested) ==
    LET xref == [BlankNode EXCEPT
                    !.cls = "pending_xref",
                    !.attributes = [BlankAttrs EXCEPT
                        !.reftype = reftype, !.reftarget = reftarget,
                        !.refexplicit = refexplicit],
                    !.inline = [cls |-> "inline",
                                classes |-> IF reftype = "any"
                                            THEN <<"xref", "any">>
                                            ELSE <<"xref", "std",
                                                   "std-" \o reftype>>],
                    !.text = IF refexplicit THEN "see" ELSE reftarget]
        h1 == Alloc(heap, xref)
    IN  /\ Reading
        /\ heap' = Attach(h1, doctree[docname], nested, <<Len(h1)>>)
        /\ lineno' = lineno + 1
        /\ last_call' = [n |-> last_call.n + 1, name |-> <<reftype>>,
                         label |-> "", ret |-> <<Len(h1)>>]
        /\ builds' = Parsed(<<reftype>>, [label |-> "", reftarget |-> reftarget,
                                        refexplicit |-> refexplicit], nested)
        /\ UNCHANGED <<source_len, hide_spice_simulations, builder, registry, gated_registry,
                       doctree, docname, serialno, pc, warnings, errors, raised,
                       passes>>

NextDoc(doc) ==
    LET i == CHOOSE k \in DOMAIN DocOrder : DocOrder[k] = doc
    IN  IF i < Len(DocOrder) THEN DocOrder[i + 1] ELSE ""

\* the source of the current document is exhausted: its transforms run
EndOfSource ==
    /\ pc = "read" /\ raised = "none"
    /\ pc' = "CheckGatedDirectives"
    /\ UNCHANGED <<builds, source_len, hide_spice_simulations, builder, registry, gated_registry,
                   heap, doctree, docname, serialno, lineno, warnings, errors,
                   raised, last_call, passes>>

----------------------------------------------------------------------------
(* transforms.py: CheckGatedDirectives *)

\* len(re.findall("(SE)", sequence)): non-overlapping matches, left to right
RECURSIVE findall_SE(_)
findall_SE(sequence) ==
    IF Len(sequence) < 2 THEN 0
    ELSE IF sequence[1] = "S" /\ sequence[2] = "E"
         THEN 1 + findall_SE(SubSeq(sequence, 3, Len(sequence)))
         ELSE findall_SE(Tail(sequence))

GateError(kind, gr, doc) ==
    [kind |-> kind, docname |-> doc, nodetype |-> gr[doc].type,
     structure |-> gr[doc].msg]

\* check_structure without its scan for adjacent start/end pairs
check_structure_counts_only(gr, doc) ==
    IF doc \notin DOMAIN gr THEN <<>>
    ELSE IF Len(gr[doc].start) > Len(gr[doc].end)
         THEN <<GateError("missing end", gr, doc)>>
    ELSE IF Len(gr[doc].start) < Len(gr[doc].end)
         THEN <<GateError("missing start", gr, doc)>>
    ELSE <<>>

\* check_structure with >= for > in its first comparison
check_structure_ge(gr, doc) ==
    IF doc \notin DOMAIN gr THEN <<>>
    ELSE (IF Len(gr[doc].start) >= Len(gr[doc].end)
          THEN <<GateError("missing end", gr, doc)>> ELSE <<>>)
         \o (IF Len(gr[doc].start) < Len(gr[doc].end)
             THEN <<GateError("missing start", gr, doc)>> ELSE <<>>)
         \o (IF Len(gr[doc].start) = Len(gr[doc].end)
                /\ findall_SE(gr[doc].sequence) # Len(gr[doc].start)
             THEN <<GateError("nested", gr, doc)>> ELSE <<>>)

\* CheckGatedDirectives.check_structure: the errors it logs, in order
check_structure(gr, doc) ==
    IF doc \notin DOMAIN gr THEN <<>>
    ELSE LET start == gr[doc].start
             end == gr[doc].end
             sequence == gr[doc].sequence
             e1 == IF Len(start) > Len(end)
                   THEN <<GateError("missing end", gr, doc)>> ELSE <<>>
             e2 == IF Len(start) < Len(end)
                   THEN <<GateError("missing start", gr, doc)>> ELSE <<>>
             e3 == IF Len(start) = Len(end)
                      /\ findall_SE(sequence) # Len(start)
                   THEN <<GateError("nested", gr, doc)>> ELSE <<>>
         IN  e1 \o e2 \o e3

\* CheckGatedDirectives.apply that logs its errors and raises nothing
CheckGatedDirectives_apply_logs_only ==
    /\ pc = "CheckGatedDirectives" /\ raised = "none"
    /\ errors' = errors \o check_structure(gated_registry, docname)
    /\ passes' = Append(passes, <<"CheckGatedDirectives", docname>>)
    /\ pc' = "MergeGatedspice_simulations"
    /\ UNCHANGED <<builds, source_len, hide_spice_simulations, builder, registry,
                   gated_registry, heap, doctree, docname, serialno, lineno,
                   warnings, raised, last_call>>

\* CheckGatedDirectives.apply (priority 1), with the ExtensionError of
\* check_structure
CheckGatedDirectives_apply ==
    LET logged == check_structure(gated_registry, docname)
    IN  /\ pc = "CheckGatedDirectives" /\ raised = "none"
        /\ errors' = errors \o logged
        /\ passes' = Append(passes, <<"CheckGatedDirectives", docname>>)
        /\ IF logged # <<>>
           THEN raised' = "ExtensionError" /\ pc' = "aborted"
           ELSE raised' = raised /\ pc' = "MergeGatedspice_simulations"
        /\ UNCHANGED <<builds, source_len, hide_spice_simulations, builder, registry, gated_registry,
                       heap, doctree, docname, serialno, lineno, warnings,
                       last_call>>

----------------------------------------------------------------------------
(* transforms.py: the merge of gated pairs *)

\* findall(node, cls): the Elements of the classes C under oid, itself
\* included, in document order
RECURSIVE findall(_, _, _), findall_list(_, _, _)
findall(h, oid, C) ==
    (IF h[oid].cls \in C THEN <<oid>> ELSE <<>>)
        \o findall_list(h, h[oid].children, C)
findall_list(h, oids, C) ==
    IF oids = <<>> THEN <<>>
    ELSE findall(h, Head(oids), C) \o findall_list(h, Tail(oids), C)

\* the least index from `from` on whose child satisfies Test, 0 when none
FirstIndex(kids, from, Test(_)) ==
    LET hits == {i \in from..Len(kids) : Test(kids[i])}
    IN  IF hits = {} THEN 0 ELSE CHOOSE i \in hits : \A j \in hits : i <= j

\* find_nodes that takes the last end marker among the siblings
find_nodes_last_end(h, label, oid, S, E) ==
    LET kids == h[h[oid].parent].children
        IsStart(c) == h[c].cls \in S /\ Attr(h, c).label = label
        parent_start == FirstIndex(kids, 1, IsStart)
        ends == {i \in parent_start..Len(kids) : h[kids[i]].cls = E}
    IN  [parent_start |-> parent_start,
         parent_end |-> IF parent_start = 0 \/ ends = {} THEN 0
                        ELSE CHOOSE i \in ends : \A j \in ends : i >= j]

\* find_nodes of both transforms, for the start classes S and the end class
\* E: parent_start and parent_end, counted from 1, 0 for None
find_nodes(h, label, oid, S, E) ==
    LET kids == h[h[oid].parent].children
        IsStart(c) == h[c].cls \in S /\ Attr(h, c).label = label
        IsEnd(c) == h[c].cls = E
        parent_start == FirstIndex(kids, 1, IsStart)
    IN  [parent_start |-> parent_start,
         parent_end |-> IF parent_start = 0 THEN 0
                        ELSE FirstIndex(kids, parent_start, IsEnd)]

\* attr.replace("spice_simulation-start", "spice_simulation")
RECURSIVE replace_simulation_start(_)
replace_simulation_start(name) ==
    IF name = <<>> THEN <<>>
    ELSE IF Len(name) >= 2 /\ name[1] = "spice_simulation" /\ name[2] = "-start"
         THEN <<"spice_simulation">>
                  \o replace_simulation_start(SubSeq(name, 3, Len(name)))
         ELSE <<Head(name)>> \o replace_simulation_start(Tail(name))

\* cls.replace("-start", "")
replace_start(name) == SelectSeq(name, LAMBDA t : t # "-start")

MapSeq(seq, F(_)) == [i \in DOMAIN seq |-> F(seq[i])]

\* RemoveRange that removes the siblings after the end marker too
RemoveRange_and_the_rest(h, parent, from, to) ==
    [h EXCEPT ![parent].children = SubSeq(h[parent].children, 1, from - 1)]

\* the children of parent without those at the indices from..to
RemoveRange(h, parent, from, to) ==
    LET kids == h[parent].children
    IN  [h EXCEPT ![parent].children =
            SubSeq(kids, 1, from - 1) \o SubSeq(kids, to + 1, Len(kids))]

\* merge_simulation with the children of the start node, its section of
\* content among them, added to the new node
merge_simulation_keeps_section(h, oid) ==
    LET label == Attr(h, oid).label
        found == find_nodes(h, label, oid, {"spice_simulation_start_node"},
                            "spice_simulation_end_node")
        parent_start == found.parent_start
        parent_end == found.parent_end
        parent == h[oid].parent
        kids == h[parent].children
        new_node == Len(h) + 1
        h1 == Append(h, [BlankNode EXCEPT !.cls = "spice_simulation_node",
                                          !.attrs = h[oid].attrs,
                                          !.parent = parent,
                                          !.title = h[oid].title])
        h2 == [h1 EXCEPT ![h[oid].attrs].attributes =
                  [@ EXCEPT !.classes = MapSeq(@, replace_simulation_start),
                            !.type = NameSim]]
        h3 == AppendChildren(h2, new_node,
                             h[oid].children
                                 \o SubSeq(kids, parent_start + 1, parent_end - 1))
        h4 == [h3 EXCEPT ![parent].children[parent_start] = new_node]
    IN  IF parent_end = 0 THEN h
        ELSE RemoveRange(h4, parent, parent_start + 1, parent_end)

\* the body of the loop of MergeGatedspice_simulations.apply for one start
\* node
merge_simulation(h, oid) ==
    LET label == Attr(h, oid).label
        found == find_nodes(h, label, oid, {"spice_simulation_start_node"},
                            "spice_simulation_end_node")
        parent_start == found.parent_start
        parent_end == found.parent_end
        parent == h[oid].parent
        kids == h[parent].children
        new_node == Len(h) + 1
        \* new_node.attributes = node.attributes: one dictionary for both
        h1 == Append(h, [BlankNode EXCEPT !.cls = "spice_simulation_node",
                                          !.attrs = h[oid].attrs,
                                          !.parent = parent,
                                          !.title = h[oid].title])
        h2 == [h1 EXCEPT ![h[oid].attrs].attributes =
                  [@ EXCEPT !.classes = MapSeq(@, replace_simulation_start),
                            !.type = NameSim]]
        h3 == AppendChildren(h2, new_node,
                             SubSeq(kids, parent_start + 1, parent_end - 1))
        \* node.replace_self(new_node)
        h4 == [h3 EXCEPT ![parent].children[parent_start] = new_node]
    IN  IF parent_end = 0 THEN h
        ELSE RemoveRange(h4, parent, parent_start + 1, parent_end)

RECURSIVE merge_simulations(_, _)
merge_simulations(h, nodes) ==
    IF nodes = <<>> THEN h
    ELSE merge_simulations(merge_simulation(h, Head(nodes)), Tail(nodes))

\* MergeGatedspice_files.merge_nodes
merge_nodes(h, oid) ==
    LET label == Attr(h, oid).label
        found == find_nodes(h, label, oid, FileClasses, "spice_file_end_node")
        parent_start == found.parent_start
        parent_end == found.parent_end
        parent == h[oid].parent
        kids == h[parent].children
        h1 == [h EXCEPT ![h[oid].attrs].attributes =
                  [@ EXCEPT !.classes = MapSeq(@, replace_start),
                            !.type = replace_start(@)]]
        \* content = node.children[-1]; content += child
        h2 == AppendChildren(h1, oid,
                             SubSeq(kids, parent_start + 1, parent_end - 1))
    IN  IF parent_end = 0 THEN h
        ELSE RemoveRange(h2, parent, parent_start + 1, parent_end)

\* one loop of MergeGatedspice_files.apply
RECURSIVE merge_files(_, _)
merge_files(h, nodes) ==
    IF nodes = <<>> THEN h
    ELSE LET oid == Head(nodes)
             h1 == IF h[oid].gated THEN merge_nodes(h, oid) ELSE h
         IN  merge_files([h1 EXCEPT ![oid].gated = FALSE], Tail(nodes))

TransformUnchanged ==
    UNCHANGED <<builds, source_len, hide_spice_simulations, builder, registry, gated_registry,
                doctree, docname, serialno, lineno, warnings, errors, raised,
                last_call>>

\* MergeGatedspice_simulations.apply (priority 10)
MergeGatedspice_simulations_apply ==
    /\ pc = "MergeGatedspice_simulations" /\ raised = "none"
    /\ heap' = merge_simulations(heap,
                   findall(heap, doctree[docname], {"spice_simulation_start_node"}))
    /\ passes' = Append(passes, <<"MergeGatedspice_simulations", docname>>)
    /\ pc' = "MergeGatedspice_files"
    /\ TransformUnchanged

\* MergeGatedspice_files.apply (priority 10), then the host turns to the
\* next document, or to writing when every document is read
MergeGatedspice_files_apply ==
    LET root == doctree[docname]
        h1 == merge_files(heap, findall(heap, root, {"spice_file_node"}))
        h2 == merge_files(h1, findall(h1, root, {"spice_file_enumerable_node"}))
        next == NextDoc(docname)
    IN  /\ pc = "MergeGatedspice_files" /\ raised = "none"
        /\ passes' = Append(passes, <<"MergeGatedspice_files", docname>>)
        /\ IF next # ""
           THEN /\ heap' = Alloc(h2, [BlankNode EXCEPT !.cls = "document"])
                /\ doctree' = Put(doctree, next, Len(h2) + 1)
                /\ docname' = next
                /\ serialno' = 0
                /\ lineno' = 1
                /\ pc' = "read"
           ELSE /\ heap' = h2
                /\ docname' = DocOrder[1]
                /\ pc' = "UpdateReferencesToEnumerated"
                /\ UNCHANGED <<doctree, serialno, lineno>>
        /\ UNCHANGED <<builds, source_len, hide_spice_simulations, builder, registry, gated_registry,
                       warnings, errors, raised, last_call>>

----------------------------------------------------------------------------
(* post_transforms.py *)

\* app.config.numfig_format["spice_file"] % number
numfig_format(number) == "spice_file " \o number

\* utils.get_node_number(app, node, "spice_file"): the display number the
\* host's numbering keeps for the node's id
get_node_number(h, oid) ==
    LET id == Attr(h, oid).ids[1]
    IN  IF id = "a" THEN "1" ELSE IF id = "b" THEN "2" ELSE "3"

\* app.builder.get_relative_uri(from, to)
get_relative_uri(from, to) == IF from = to THEN "" ELSE to \o ".html"

\* build_reference_node with the URI taken relative to the first document
\* of the build instead of app.env.docname
build_reference_node_from_first(h, doc, target_node) ==
    Piece("reference", "", <<>>,
          get_relative_uri("d1", Attr(h, target_node).docname)
              \o "#" \o Attr(h, target_node).label)

\* build_reference_node(app, target_node), with app.env.docname = doc
build_reference_node(h, doc, target_node) ==
    Piece("reference", "", <<>>,
          get_relative_uri(doc, Attr(h, target_node).docname)
              \o "#" \o Attr(h, target_node).label)

\* resolve_title without its test of the title's class
resolve_title_unguarded(h, oid, format) ==
    LET node == h[oid]
        title == node.title
        numbered == node.cls = "spice_file_enumerable_node"
        t1 == IF numbered
              THEN [cls |-> "title", title |-> "spice_file %s",
                    children |-> IF format = "latex"
                                 THEN <<Text(numfig_format(get_node_number(h, oid)))>>
                                 ELSE <<>>]
              ELSE [cls |-> "title", title |-> "",
                    children |-> <<title.children[1]>>]
        subtitle == title.children[2]
        updated_title ==
            IF Len(title.children) > 1 /\ subtitle.cls = "spice_file_subtitle"
            THEN [t1 EXCEPT !.children =
                     @ \o <<Text(" (")>> \o subtitle.children \o <<Text(")")>>]
            ELSE t1
    IN  [h EXCEPT ![oid].title = updated_title,
                  ![oid].resolved_title = TRUE]

\* ResolveTitlesInspice_files.resolve_title
resolve_title(h, oid, format) ==
    LET node == h[oid]
        title == node.title
        numbered == node.cls = "spice_file_enumerable_node"
        t1 == IF numbered
              THEN [cls |-> "title", title |-> "spice_file %s",
                    children |-> IF format = "latex"
                                 THEN <<Text(numfig_format(get_node_number(h, oid)))>>
                                 ELSE <<>>]
              ELSE [cls |-> "title", title |-> "",
                    children |-> <<title.children[1]>>]
        subtitle == title.children[2]
        updated_title ==
            IF Len(title.children) > 1 /\ subtitle.cls = "spice_file_subtitle"
            THEN [t1 EXCEPT !.children =
                     @ \o <<Text(" (")>> \o subtitle.children \o <<Text(")")>>]
            ELSE t1
    IN  IF title.cls = "spice_file_title"
        THEN [h EXCEPT ![oid].title = updated_title,
                       ![oid].resolved_title = TRUE]
        ELSE [h EXCEPT ![oid].resolved_title = TRUE]

RECURSIVE resolve_titles(_, _, _)
resolve_titles(h, nodes, format) ==
    IF nodes = <<>> THEN h
    ELSE resolve_titles(resolve_title(h, Head(nodes), format), Tail(nodes), format)

\* resolve_spice_simulation_title with the number of the simulation block's
\* own place in its document for the display number of the target
resolve_spice_simulation_title_own_number(h, doc, oid, spice_file_node) ==
    LET title == h[oid].title
        spice_file_title == h[spice_file_node].title
        entry_title_text == Attr(h, oid).title
        text0 == " " \o astext(spice_file_title.children[1])
        updated_title_text ==
            IF h[spice_file_node].cls = "spice_file_enumerable_node"
            THEN text0 \o " " \o ToString(Attr(h, oid).serial_number + 1)
            ELSE text0
        ref0 == [build_reference_node(h, doc, spice_file_node)
                     EXCEPT !.children = <<Text(updated_title_text)>>]
        subtitle == spice_file_title.children[2]
        wrap_reference ==
            IF Len(spice_file_title.children) > 1
               /\ subtitle.cls = "spice_file_subtitle"
            THEN [ref0 EXCEPT !.children =
                     @ \o <<Text(" (")>> \o subtitle.children \o <<Text(")")>>]
            ELSE ref0
        updated_title == [cls |-> "title", title |-> "",
                          children |-> <<Text(entry_title_text), wrap_reference>>]
    IN  IF title.cls = "spice_simulation_title"
        THEN [h EXCEPT ![h[oid].attrs].attributes.title =
                           entry_title_text \o updated_title_text,
                       ![oid].title = updated_title,
                       ![oid].resolved_title = TRUE]
        ELSE [h EXCEPT ![oid].resolved_title = TRUE]

\* resolve_spice_simulation_title with a number for every class of target
resolve_spice_simulation_title_numbers_all(h, doc, oid, spice_file_node) ==
    LET title == h[oid].title
        spice_file_title == h[spice_file_node].title
        entry_title_text == Attr(h, oid).title
        text0 == " " \o astext(spice_file_title.children[1])
        updated_title_text ==
            text0 \o " " \o get_node_number(h, spice_file_node)
        ref0 == [build_reference_node(h, doc, spice_file_node)
                     EXCEPT !.children = <<Text(updated_title_text)>>]
        subtitle == spice_file_title.children[2]
        wrap_reference ==
            IF Len(spice_file_title.children) > 1
               /\ subtitle.cls = "spice_file_subtitle"
            THEN [ref0 EXCEPT !.children =
                     @ \o <<Text(" (")>> \o subtitle.children \o <<Text(")")>>]
            ELSE ref0
        updated_title == [cls |-> "title", title |-> "",
                          children |-> <<Text(entry_title_text), wrap_reference>>]
    IN  IF title.cls = "spice_simulation_title"
        THEN [h EXCEPT ![h[oid].attrs].attributes.title =
                           entry_title_text \o updated_title_text,
                       ![oid].title = updated_title,
                       ![oid].resolved_title = TRUE]
        ELSE [h EXCEPT ![oid].resolved_title = TRUE]

\* resolve_spice_simulation_title(app, node, spice_file_node), with
\* app.env.docname = doc
resolve_spice_simulation_title(h, doc, oid, spice_file_node) ==
    LET title == h[oid].title
        spice_file_title == h[spice_file_node].title
        entry_title_text == Attr(h, oid).title
        text0 == " " \o astext(spice_file_title.children[1])
        updated_title_text ==
            IF h[spice_file_node].cls = "spice_file_enumerable_node"
            THEN text0 \o " " \o get_node_number(h, spice_file_node)
            ELSE text0
        ref0 == [build_reference_node(h, doc, spice_file_node)
                     EXCEPT !.children = <<Text(updated_title_text)>>]
        subtitle == spice_file_title.children[2]
        wrap_reference ==
            IF Len(spice_file_title.children) > 1
               /\ subtitle.cls = "spice_file_subtitle"
            THEN [ref0 EXCEPT !.children =
                     @ \o <<Text(" (")>> \o subtitle.children \o <<Text(")")>>]
            ELSE ref0
        updated_title == [cls |-> "title", title |-> "",
                          children |-> <<Text(entry_title_text), wrap_reference>>]
    IN  IF title.cls = "spice_simulation_title"
        THEN [h EXCEPT ![h[oid].attrs].attributes.title =
                           entry_title_text \o updated_title_text,
                       ![oid].title = updated_title,
                       ![oid].resolved_title = TRUE]
        ELSE [h EXCEPT ![oid].resolved_title = TRUE]

\* resolve_simulations with the node stored under the label of the target
\* instead of the label of the simulation block
RECURSIVE resolve_simulations_updates_target(_, _, _, _, _)
resolve_simulations_updates_target(h, reg, warns, doc, nodes) ==
    IF nodes = <<>> THEN [heap |-> h, registry |-> reg, warnings |-> warns]
    ELSE LET node == Head(nodes)
             label == Attr(h, node).label
             target_label == Attr(h, node).target_label
             warned == Append(warns,
                              [msg |-> "undefined label", label |-> target_label,
                               location |-> doc, other |-> ""])
             h1 == resolve_spice_simulation_title(h, doc, node,
                                                  reg[target_label].node)
         IN  IF target_label \notin DOMAIN reg
             THEN [heap |-> h, registry |-> reg, warnings |-> warned]
             ELSE IF label \notin DOMAIN reg
             THEN [heap |-> h1, registry |-> reg, warnings |-> warned]
             ELSE resolve_simulations_updates_target(
                      h1, [reg EXCEPT ![target_label].node = node],
                      warns, doc, Tail(nodes))

\* The loop of ResolveTitlesInspice_simulations.run over the nodes left:
\* the heap, the registry and the warnings it leaves.  An exception (no
\* registry entry for the target) is caught, logged, and ends the run.
RECURSIVE resolve_simulations(_, _, _, _, _)
resolve_simulations(h, reg, warns, doc, nodes) ==
    IF nodes = <<>> THEN [heap |-> h, registry |-> reg, warnings |-> warns]
    ELSE LET node == Head(nodes)
             label == Attr(h, node).label
             target_label == Attr(h, node).target_label
             warned == Append(warns,
                              [msg |-> "undefined label", label |-> target_label,
                               location |-> doc, other |-> ""])
             h1 == resolve_spice_simulation_title(h, doc, node,
                                                  reg[target_label].node)
         IN  IF target_label \notin DOMAIN reg
             THEN [heap |-> h, registry |-> reg, warnings |-> warned]
             ELSE IF label \notin DOMAIN reg
             THEN [heap |-> h1, registry |-> reg, warnings |-> warned]
             ELSE resolve_simulations(h1, [reg EXCEPT ![label].node = node],
                                      warns, doc, Tail(nodes))

\* The loop of ResolveLinkTextTospice_simulations.run over the reference
\* nodes left: the heap it leaves and the exception that escaped, if any.
RECURSIVE resolve_link_texts(_, _, _, _, _)
resolve_link_texts(h, reg, doc, format, nodes) ==
    IF nodes = <<>> THEN [heap |-> h, raised |-> "none"]
    ELSE LET node == Head(nodes)
             refid == Attr(h, node).refid
             target_node == reg[refid].node
             \* the latex branch: a spice_file_latex_number_reference with the
             \* node's attribute dictionary and children takes its place
             parent == h[node].parent
             new_node == Len(h) + 1
             at == FirstIndex(h[parent].children, 1, LAMBDA c : c = node)
             h1 == IF format = "latex"
                      /\ h[target_node].cls = "spice_file_enumerable_node"
                   THEN [Append(h, [h[node] EXCEPT
                                !.cls = "spice_file_latex_number_reference"])
                            EXCEPT ![parent].children[at] = new_node]
                   ELSE h
             spice_file_label == Attr(h1, target_node).target_label
             lazy == ~h1[target_node].resolved_title
             h2 == IF lazy
                   THEN resolve_spice_simulation_title(h1, doc, target_node,
                                                       reg[spice_file_label].node)
                   ELSE h1
             title_text == astext([cls |-> "title", text |-> "", refuri |-> "",
                                   children |-> h2[target_node].title.children])
         IN  IF refid = "" \/ refid \notin DOMAIN reg
             THEN resolve_link_texts(h, reg, doc, format, Tail(nodes))
             ELSE IF h1[target_node].cls # "spice_simulation_node"
             THEN resolve_link_texts(h1, reg, doc, format, Tail(nodes))
             ELSE IF lazy /\ spice_file_label \notin DOMAIN reg
             THEN [heap |-> h1, raised |-> "KeyError"]
             ELSE resolve_link_texts([h2 EXCEPT ![node].text = title_text],
                                     reg, doc, format, Tail(nodes))

ReferenceClasses == {"reference", "spice_file_latex_number_reference"}

PostTransformUnchanged ==
    UNCHANGED <<builds, source_len, hide_spice_simulations, builder, gated_registry, doctree,
                docname, serialno, lineno, errors, last_call>>

\* list.remove(x) for an x the list holds: without its first occurrence
list_remove(list, x) ==
    LET at == CHOOSE i \in DOMAIN list :
                  list[i] = x /\ \A j \in 1..(i - 1) : list[j] # x
    IN  SubSeq(list, 1, at - 1) \o SubSeq(list, at + 1, Len(list))

\* update_reference that marks the block it found for the reference as
\* resolved
update_reference_marks_target(h, reg, oid) ==
    LET target_label == Attr(h, oid).reftarget
        target_node == reg[target_label].node
        classes == h[oid].inline.classes
        h1 == [h EXCEPT ![h[oid].attrs].attributes.reftype = "numref",
                        ![target_node].resolved_title = TRUE]
    IN  IF /\ Attr(h, oid).reftype # "numref"
           /\ target_label \in DOMAIN reg
           /\ h[target_node].cls = "spice_file_enumerable_node"
           /\ ~Attr(h, oid).refexplicit
        THEN IF "std-ref" \notin Range(classes)
             THEN [heap |-> h1, raised |-> "ValueError"]
             ELSE [heap |-> [h1 EXCEPT ![oid].inline =
                                [cls |-> "literal",
                                 classes |-> list_remove(classes, "std-ref")
                                                 \o <<"std-numref">>]],
                   raised |-> "none"]
        ELSE [heap |-> h, raised |-> "none"]

\* the body of the loop of UpdateReferencesToEnumerated.run for one
\* pending_xref:
\* update_reference without the test of refexplicit
update_reference_overwrites(h, reg, oid) ==
    LET target_label == Attr(h, oid).reftarget
        target_node == reg[target_label].node
        classes == h[oid].inline.classes
        h1 == [h EXCEPT ![h[oid].attrs].attributes.reftype = "numref"]
    IN  IF /\ Attr(h, oid).reftype # "numref"
           /\ target_label \in DOMAIN reg
           /\ h[target_node].cls = "spice_file_enumerable_node"
        THEN IF "std-ref" \notin Range(classes)
             THEN [heap |-> h1, raised |-> "ValueError"]
             ELSE [heap |-> [h1 EXCEPT ![oid].inline =
                                [cls |-> "literal",
                                 classes |-> list_remove(classes, "std-ref")
                                                 \o <<"std-numref">>]],
                   raised |-> "none"]
        ELSE [heap |-> h, raised |-> "none"]

\* the heap it leaves and the exception it raises, if any: the reftype is
\* set before classes.remove("std-ref"), which raises ValueError for a list
\* without that class
update_reference(h, reg, oid) ==
    LET target_label == Attr(h, oid).reftarget
        target_node == reg[target_label].node
        classes == h[oid].inline.classes
        h1 == [h EXCEPT ![h[oid].attrs].attributes.reftype = "numref"]
    IN  IF /\ Attr(h, oid).reftype # "numref"
           /\ target_label \in DOMAIN reg
           /\ h[target_node].cls = "spice_file_enumerable_node"
           /\ ~Attr(h, oid).refexplicit
        THEN IF "std-ref" \notin Range(classes)
             THEN [heap |-> h1, raised |-> "ValueError"]
             ELSE [heap |-> [h1 EXCEPT ![oid].inline =
                                [cls |-> "literal",
                                 classes |-> list_remove(classes, "std-ref")
                                                 \o <<"std-numref">>]],
                   raised |-> "none"]
        ELSE [heap |-> h, raised |-> "none"]

\* the loop of UpdateReferencesToEnumerated.run over the nodes left
RECURSIVE update_references(_, _, _)
update_references(h, reg, nodes) ==
    IF nodes = <<>> THEN [heap |-> h, raised |-> "none"]
    ELSE LET r == update_reference(h, reg, Head(nodes))
         IN  IF r.raised # "none" THEN r
             ELSE update_references(r.heap, reg, Tail(nodes))

\* UpdateReferencesToEnumerated.run (priority 5)
UpdateReferencesToEnumerated_run ==
    LET r == update_references(heap, registry,
                 findall(heap, doctree[docname], {"pending_xref"}))
    IN  /\ pc = "UpdateReferencesToEnumerated" /\ raised = "none"
        /\ heap' = r.heap
        /\ raised' = r.raised
        /\ passes' = Append(passes, <<"UpdateReferencesToEnumerated", docname>>)
        /\ pc' = (IF r.raised # "none" THEN "aborted" ELSE "ReferencesResolver")
        /\ PostTransformUnchanged
        /\ UNCHANGED <<registry, warnings>>

\* The host's resolver for one pending_xref whose target is a block shown
\* in some document: a reference takes its place, with refid when the
\* target is in the document being written and refuri otherwise.
resolve_reference(h, reg, doc, oid) ==
    LET target == Attr(h, oid).reftarget
        shown == target \in DOMAIN reg /\ ~Attr(h, reg[target].node).hidden
    IN  IF ~shown THEN h
        ELSE [h EXCEPT ![oid].cls = "reference",
                       ![h[oid].attrs].attributes.refid =
                           IF reg[target].docname = doc THEN target ELSE ""]

RECURSIVE resolve_references(_, _, _, _)
resolve_references(h, reg, doc, nodes) ==
    IF nodes = <<>> THEN h
    ELSE resolve_references(resolve_reference(h, reg, doc, Head(nodes)),
                            reg, doc, Tail(nodes))

\* the host's ReferencesResolver (priority 10)
ReferencesResolver_run ==
    /\ pc = "ReferencesResolver" /\ raised = "none"
    /\ heap' = resolve_references(heap, registry, docname,
                   findall(heap, doctree[docname], {"pending_xref"}))
    /\ passes' = Append(passes, <<"ReferencesResolver", docname>>)
    /\ pc' = "ResolveTitlesInspice_files"
    /\ PostTransformUnchanged
    /\ UNCHANGED <<registry, warnings, raised>>

\* ResolveTitlesInspice_files.run (priority 20)
ResolveTitlesInspice_files_run ==
    /\ pc = "ResolveTitlesInspice_files" /\ raised = "none"
    /\ heap' = resolve_titles(heap, findall(heap, doctree[docname], FileClasses),
                              builder)
    /\ passes' = Append(passes, <<"ResolveTitlesInspice_files", docname>>)
    /\ pc' = "ResolveTitlesInspice_simulations"
    /\ PostTransformUnchanged
    /\ UNCHANGED <<registry, warnings, raised>>

\* ResolveTitlesInspice_simulations.run with the priority of the file-block
\* title pass, and applied in its place
ResolveTitlesInspice_simulations_run_early ==
    LET r == resolve_simulations(heap, registry, warnings, docname,
                 findall(heap, doctree[docname], {"spice_simulation_node"}))
    IN  /\ pc = "ResolveTitlesInspice_files" /\ raised = "none"
        /\ heap' = r.heap
        /\ registry' = r.registry
        /\ warnings' = r.warnings
        /\ passes' = Append(passes, <<"ResolveTitlesInspice_simulations", docname>>)
        /\ pc' = "ResolveLinkTextTospice_simulations"
        /\ PostTransformUnchanged
        /\ UNCHANGED raised

\* ResolveTitlesInspice_simulations.run (priority 21)
ResolveTitlesInspice_simulations_run ==
    LET r == resolve_simulations(heap, registry, warnings, docname,
                 findall(heap, doctree[docname], {"spice_simulation_node"}))
    IN  /\ pc = "ResolveTitlesInspice_simulations" /\ raised = "none"
        /\ heap' = r.heap
        /\ registry' = r.registry
        /\ warnings' = r.warnings
        /\ passes' = Append(passes, <<"ResolveTitlesInspice_simulations", docname>>)
        /\ pc' = "ResolveLinkTextTospice_simulations"
        /\ PostTransformUnchanged
        /\ UNCHANGED raised

\* ResolveLinkTextTospice_simulations.run (priority 22), then the host
\* writes the document and turns to the next one
ResolveLinkTextTospice_simulations_run ==
    LET r == resolve_link_texts(heap, registry, docname, builder,
                 findall(heap, doctree[docname], ReferenceClasses))
        next == NextDoc(docname)
    IN  /\ pc = "ResolveLinkTextTospice_simulations" /\ raised = "none"
        /\ heap' = r.heap
        /\ raised' = r.raised
        /\ passes' = Append(passes,
                            <<"ResolveLinkTextTospice_simulations", docname>>)
        /\ IF r.raised # "none" THEN pc' = "aborted" /\ docname' = docname
           ELSE IF next # "" THEN pc' = "UpdateReferencesToEnumerated"
                                  /\ docname' = next
           ELSE pc' = "done" /\ docname' = docname
        /\ UNCHANGED <<builds, source_len, hide_spice_simulations, builder, registry, gated_registry,
                       doctree, serialno, lineno, warnings, errors, last_call>>

\* the times document doc was resolved so far
Writes(doc) ==
    Cardinality({i \in DOMAIN passes :
                    passes[i] = <<"UpdateReferencesToEnumerated", doc>>})

\* the host resolves the documents once more, from the trees it holds, to
\* write them again
WriteAgain ==
    /\ pc = "done" /\ raised = "none"
    /\ Writes(DocOrder[1]) < MaxWrites
    /\ pc' = "UpdateReferencesToEnumerated"
    /\ docname' = DocOrder[1]
    /\ UNCHANGED <<builds, source_len, hide_spice_simulations, builder, registry,
                   gated_registry, heap, doctree, serialno, lineno, warnings,
                   errors, raised, last_call, passes>>

\* what the build that now ends leaves for the build that follows it to be
\* compared with
BuildRecord ==
    [source |-> builds.source, gated_registry |-> gated_registry,
     warnings |-> warnings, labels |-> DOMAIN registry]

\* the host starts the following build: every document is parsed again, and
\* REGISTRY and TRACKER are what the build starts with
StartBuild(REGISTRY, TRACKER) ==
    /\ pc = "done" /\ raised = "none"
    /\ builds.incremental /\ builds.n < MaxBuilds
    /\ builds' = [builds EXCEPT !.n = @ + 1, !.source = <<>>,
                                !.previous = <<BuildRecord>>]
    /\ registry' = REGISTRY
    /\ gated_registry' = TRACKER
    /\ heap' = Alloc(<<>>, [BlankNode EXCEPT !.cls = "document"])
    /\ doctree' = Put(EmptyMap, DocOrder[1], 1)
    /\ docname' = DocOrder[1]
    /\ serialno' = 0
    /\ lineno' = 1
    /\ pc' = "read"
    /\ warnings' = <<>>
    /\ errors' = <<>>
    /\ last_call' = [n |-> 0, name |-> <<>>, label |-> "", ret |-> <<>>]
    /\ passes' = <<>>
    /\ UNCHANGED <<source_len, hide_spice_simulations, builder, raised>>

\* the following build starts with the registry and the tracker the build
\* before it filled
NextBuild_keeps_registries == StartBuild(registry, gated_registry)

\* the following build: the registry and the tracker of the build before it
\* are discarded
NextBuild == StartBuild(EmptyMap, EmptyMap)

----------------------------------------------------------------------------
(* Specifications *)

\* the state after construction, for a build whose configuration is drawn
\* from Hide and Formats, by a host that builds once or again
InitBuild(Hide, Formats, len, incremental) ==
    /\ source_len = len
    /\ hide_spice_simulations \in Hide
    /\ builder \in Formats
    /\ registry = EmptyMap
    /\ gated_registry = EmptyMap
    /\ heap = Alloc(<<>>, [BlankNode EXCEPT !.cls = "document"])
    /\ doctree = Put(EmptyMap, DocOrder[1], 1)
    /\ docname = DocOrder[1]
    /\ serialno = 0
    /\ lineno = 1
    /\ pc = "read"
    /\ warnings = <<>>
    /\ errors = <<>>
    /\ raised = "none"
    /\ last_call = [n |-> 0, name |-> <<>>, label |-> "", ret |-> <<>>]
    /\ passes = <<>>
    /\ builds = [incremental |-> incremental, n |-> 1, source |-> <<>>,
                 previous |-> <<>>]

InitWith(Hide, Formats, len) == InitBuild(Hide, Formats, len, FALSE)

FileOpts(label, nonumber, hidden, arguments, content) ==
    [label |-> label, class |-> <<>>, nonumber |-> nonumber, hidden |-> hidden,
     arguments |-> arguments, content |-> content]

SimOpts(label, target, hidden, content) ==
    [label |-> label, class |-> <<>>, hidden |-> hidden, target |-> target,
     content |-> content]

\* the transforms of the read phase, in priority order
Transforms ==
    \/ EndOfSource
    \/ CheckGatedDirectives_apply
    \/ MergeGatedspice_simulations_apply
    \/ MergeGatedspice_files_apply

\* the post-transforms of the write phase, in priority order
PostTransforms ==
    \/ UpdateReferencesToEnumerated_run
    \/ ReferencesResolver_run
    \/ ResolveTitlesInspice_files_run
    \/ ResolveTitlesInspice_simulations_run
    \/ ResolveLinkTextTospice_simulations_run

(* Labels: directives of both kinds, plain and gated, that share labels *)

LabelFileOptions ==
    {FileOpts(l, FALSE, h, <<>>, 0) : l \in {"", "a"}, h \in BOOLEAN}
LabelStartOptions == {FileOpts("a", FALSE, h, <<>>, 0) : h \in BOOLEAN}
LabelSimOptions == {SimOpts("a", "a", h, 0) : h \in BOOLEAN}

NextLabels ==
    \/ \E opts \in LabelFileOptions : spice_fileDirective_run(opts, FALSE)
    \/ \E opts \in LabelStartOptions : spice_fileStartDirective_run(opts, FALSE)
    \/ \E opts \in LabelSimOptions : spice_simulationDirective_run(opts, FALSE)
    \/ \E opts \in LabelSimOptions :
           spice_simulationStartDirective_run(opts, FALSE)
    \/ Transforms

SpecLabels == InitWith(BOOLEAN, {"html"}, MaxSteps) /\ [][NextLabels]_vars

(* Markers: start and end directives of both kinds, nothing else *)

NextMarkers ==
    \/ spice_fileStartDirective_run(FileOpts("", FALSE, FALSE, <<>>, 0), FALSE)
    \/ spice_fileEndDirective_run(FALSE)
    \/ spice_simulationStartDirective_run(SimOpts("", "a", FALSE, 0), FALSE)
    \/ spice_simulationEndDirective_run(FALSE)
    \/ Transforms

SpecMarkers == InitWith({FALSE}, {"html"}, MaxMarkers) /\ [][NextMarkers]_vars

----------------------------------------------------------------------------
(* C1: the duplicate-label policy *)

SimulationNames == {NameSim, NameSimStart}

\* the step is a directive run whose label the registry already holds
RunsWithRegisteredLabel ==
    /\ last_call'.n # last_call.n
    /\ last_call'.label \in DOMAIN registry

\* C1 as stated: a directive that runs with a label already present in the
\* registry returns no node, leaves the registry and the registered snapshot
\* as they were, emits exactly one warning and does not abort the build.
C1_DuplicateWarnsOnce ==
    [][RunsWithRegisteredLabel =>
          /\ last_call'.ret = <<>>
          /\ registry' = registry
          /\ heap' = heap
          /\ Len(warnings') = Len(warnings) + 1
          /\ raised' = "none"]_vars

\* C1, amended: as above, but a simulation directive run while
\* hide_spice_simulations is set returns before it looks at its label and
\* emits no warning; every other directive emits exactly one, which names the
\* label and the document of the first registrant.
C1_DuplicateLabelPolicy ==
    [][RunsWithRegisteredLabel =>
          /\ last_call'.ret = <<>>
          /\ registry' = registry
          /\ heap' = heap
          /\ raised' = "none"
          /\ IF hide_spice_simulations /\ last_call'.name \in SimulationNames
             THEN warnings' = warnings
             ELSE warnings' = Append(warnings,
                      [msg |-> "duplicate label", label |-> last_call'.label,
                       location |-> docname,
                       other |-> registry[last_call'.label].docname])]_vars

\* a second directive with the label of a block of another document was
\* dropped with one warning
C1_Witness ==
    /\ Len(warnings) = 1
    /\ warnings[1].msg = "duplicate label"
    /\ warnings[1].label = last_call.label
    /\ warnings[1].other # warnings[1].location
    /\ last_call.ret = <<>>
    /\ last_call.label \in DOMAIN registry
    /\ raised = "none"

----------------------------------------------------------------------------
(* C2, C3, C4: the structural validator *)

\* the S/E tokens recorded for a document
GateSequence(doc) ==
    IF doc \in DOMAIN gated_registry THEN gated_registry[doc].sequence ELSE <<>>

\* a concatenation of zero or more "SE" pairs
IsPairs(sequence) ==
    /\ Len(sequence) % 2 = 0
    /\ \A i \in DOMAIN sequence :
           sequence[i] = (IF i % 2 = 1 THEN "S" ELSE "E")

Count(sequence, token) ==
    Cardinality({i \in DOMAIN sequence : sequence[i] = token})

\* the places where an S is immediately followed by an E
AdjacentPairs(sequence) ==
    Cardinality({i \in 1..(Len(sequence) - 1) :
                    sequence[i] = "S" /\ sequence[i + 1] = "E"})

\* the validator has just run on the current document
Validated ==
    passes # <<>> /\ passes[Len(passes)] = <<"CheckGatedDirectives", docname>>

\* C2: the validator passes a document if and only if its recorded token
\* sequence is a concatenation of zero or more adjacent SE pairs.
C2_ValidatorSoundness ==
    Validated => (raised = "none" <=> IsPairs(GateSequence(docname)))

\* the validator passed SESE
C2_Witness ==
    Validated /\ raised = "none" /\ GateSequence(docname) = <<"S", "E", "S", "E">>

\* C3: a failed validation logs exactly one error, whose kind the marker
\* counts decide: missing end for more starts than ends, missing start for
\* fewer, nested for equal counts with a number of adjacent SE pairs that
\* differs from the number of starts.
C3_ErrorKindByCounts ==
    raised = "ExtensionError" =>
        LET sequence == GateSequence(docname)
            starts == Count(sequence, "S")
            ends == Count(sequence, "E")
        IN  /\ Len(errors) = 1
            /\ errors[1].docname = docname
            /\ errors[1].kind = (IF starts > ends THEN "missing end"
                                 ELSE IF starts < ends THEN "missing start"
                                 ELSE "nested")
            /\ starts = ends => AdjacentPairs(sequence) # starts

\* SSEE was rejected as nested
C3_Witness ==
    /\ raised = "ExtensionError"
    /\ GateSequence(docname) = <<"S", "S", "E", "E">>
    /\ Len(errors) = 1 /\ errors[1].kind = "nested"

MergePasses == {"MergeGatedspice_simulations", "MergeGatedspice_files"}

\* C4: a malformed marker sequence raises one fatal error after its
\* diagnostics are logged and no merge ever runs on that document (the
\* validator's run is the last pass of the build); a well-formed sequence
\* raises nothing.
C4_FatalBeforeMerge ==
    /\ \A i \in DOMAIN passes :
           passes[i][1] \in MergePasses => IsPairs(GateSequence(passes[i][2]))
    /\ ~IsPairs(GateSequence(docname)) /\ pc \notin {"read", "CheckGatedDirectives"} =>
           /\ raised = "ExtensionError" /\ pc = "aborted"
           /\ errors # <<>>
           /\ passes[Len(passes)] = <<"CheckGatedDirectives", docname>>
    /\ raised = "ExtensionError" => ~IsPairs(GateSequence(docname))

\* the second document failed validation after the first one was merged
C4_Witness ==
    /\ raised = "ExtensionError" /\ pc = "aborted" /\ docname = DocOrder[2]
    /\ \E i \in DOMAIN passes : passes[i] = <<"MergeGatedspice_files", DocOrder[1]>>
    /\ \A i \in DOMAIN passes : passes[i][1] \in MergePasses => passes[i][2] # docname

----------------------------------------------------------------------------
(* C5, C6: the gated merger *)

\* gated pairs of both kinds, with and without content of their own, around
\* plain paragraphs; a start may be hidden or repeat a registered label, an
\* end may stand inside a container
MergeStartOptions ==
    {FileOpts("a", FALSE, FALSE, <<>>, 0), FileOpts("a", TRUE, FALSE, <<>>, 1),
     FileOpts("a", FALSE, TRUE, <<>>, 0)}
MergeSimOptions == {SimOpts("s", "a", FALSE, n) : n \in {0, 1}}

NextMerge ==
    \/ spice_fileDirective_run(FileOpts("a", FALSE, FALSE, <<>>, 0), FALSE)
    \/ \E opts \in MergeStartOptions : spice_fileStartDirective_run(opts, FALSE)
    \/ \E opts \in MergeSimOptions : spice_simulationStartDirective_run(opts, FALSE)
    \/ \E nested \in BOOLEAN : spice_fileEndDirective_run(nested)
    \/ \E nested \in BOOLEAN : spice_simulationEndDirective_run(nested)
    \/ Paragraph(FALSE)
    \/ Transforms

SpecMerge == InitWith(BOOLEAN, {"html"}, MaxSteps) /\ [][NextMerge]_vars

\* the merger has run on document doc
Merged(doc) ==
    \E i \in DOMAIN passes : passes[i] = <<"MergeGatedspice_files", doc>>

\* the start and end markers in the tree of document doc: the nodes of the
\* simulation start class and of the two end classes, and the file blocks
\* that still carry the type of the start directive
Markers(doc) ==
    {oid \in Range(findall(heap, doctree[doc],
                           FileClasses \cup EndClasses
                               \cup {"spice_simulation_start_node"})) :
        heap[oid].cls \in FileClasses => Attr(heap, oid).type = NameFileStart}

\* C5: after the merger has run on a document that passed validation, no
\* start or end marker of either kind remains anywhere in its tree.
C5_NoMarkerAfterMerge ==
    \A doc \in DOMAIN doctree : Merged(doc) => Markers(doc) = {}

\* the place of node oid among the children of its parent
IndexOf(h, oid) ==
    CHOOSE i \in DOMAIN h[h[oid].parent].children :
        h[h[oid].parent].children[i] = oid

\* the place of the first sibling of class E after node oid, 0 when none
SiblingEnd(h, oid, E) ==
    LET kids == h[h[oid].parent].children
        ends == {j \in (IndexOf(h, oid) + 1)..Len(kids) : h[kids[j]].cls = E}
    IN  IF ends = {} THEN 0 ELSE CHOOSE j \in ends : \A k \in ends : j <= k

\* the siblings strictly between node oid and its end marker, in order
Between(h, oid, E) ==
    SubSeq(h[h[oid].parent].children, IndexOf(h, oid) + 1,
           SiblingEnd(h, oid, E) - 1)

\* the document being merged holds one gated pair
OnePair ==
    /\ docname \in DOMAIN gated_registry
    /\ gated_registry[docname].sequence = <<"S", "E">>

\* the parent of the merged block new, which stands where the start stood,
\* lost the siblings up to the end marker and kept the others
SpanCollapsed(oid, new, E) ==
    LET parent == heap[oid].parent
        kids == heap[parent].children
        i == IndexOf(heap, oid)
        j == SiblingEnd(heap, oid, E)
    IN  /\ heap'[parent].children =
               SubSeq(kids, 1, i - 1) \o <<new>> \o SubSeq(kids, j + 1, Len(kids))
        /\ heap'[new].parent = parent

\* the merge of the simulation kind: the block that replaces a start with a
\* later end sibling is what the plain directive builds from the same
\* options, around the siblings between the two
SimRoundTrip ==
    pc = "MergeGatedspice_simulations" /\ pc' = "MergeGatedspice_files" /\ OnePair =>
        \A oid \in Range(findall(heap, doctree[docname],
                                 {"spice_simulation_start_node"})) :
            SiblingEnd(heap, oid, "spice_simulation_end_node") # 0 =>
                LET new == heap'[heap[oid].parent].children[IndexOf(heap, oid)]
                    content == Between(heap, oid, "spice_simulation_end_node")
                IN  /\ heap'[new].cls = "spice_simulation_node"
                    /\ Attr(heap', new) =
                           [Attr(heap, oid) EXCEPT !.classes = <<NameSim>>,
                                                   !.type = NameSim]
                    /\ heap'[new].title = heap[oid].title
                    /\ ~heap'[new].gated
                    /\ heap'[new].children = content
                    /\ \A c \in Range(content) : heap'[c].parent = new
                    /\ SpanCollapsed(oid, new, "spice_simulation_end_node")

\* the merge of the file kind: the gated block with a later end sibling
\* becomes what the plain directive builds from the same options; own tells
\* whether the content the start directive had itself stays in front of the
\* siblings
FileRoundTrip(own) ==
    pc = "MergeGatedspice_files" /\ pc' # pc /\ OnePair =>
        \A oid \in Range(findall(heap, doctree[docname], FileClasses)) :
            heap[oid].gated /\ SiblingEnd(heap, oid, "spice_file_end_node") # 0 =>
                LET content == Between(heap, oid, "spice_file_end_node")
                IN  /\ heap'[oid].cls = heap[oid].cls
                    /\ Attr(heap', oid) =
                           [Attr(heap, oid) EXCEPT !.classes = <<NameFile>>,
                                                   !.type = NameFile]
                    /\ heap'[oid].title = heap[oid].title
                    /\ ~heap'[oid].gated
                    /\ heap'[oid].children =
                           (IF own THEN heap[oid].children ELSE <<>>) \o content
                    /\ \A c \in Range(content) : heap'[c].parent = oid
                    /\ SpanCollapsed(oid, oid, "spice_file_end_node")

\* C6 as stated: for a document with one well-formed gated pair whose start
\* and end are siblings, the merged block of either kind has the attributes
\* and title of the same block authored as one plain directive, class and type
\* tags without "-start", and a content container that holds exactly the
\* siblings strictly between start and end, in their order.
C6_RoundTripMerge ==
    [][SimRoundTrip /\ FileRoundTrip(FALSE)]_vars

\* C6, amended: as above, but the container of a merged file block holds the
\* content the start directive had itself, followed by the siblings between
\* start and end; the container of a merged simulation block holds the
\* siblings only, the start directive's own content is discarded.
C6_RoundTripMergeOwnContent ==
    [][SimRoundTrip /\ FileRoundTrip(TRUE)]_vars

\* a file block merged from a start directive with content of its own and
\* one paragraph between start and end
C6_Witness ==
    /\ Merged(DocOrder[1])
    /\ GateSequence(DocOrder[1]) = <<"S", "E">>
    /\ \E oid \in Range(findall(heap, doctree[DocOrder[1]], FileClasses)) :
           /\ Attr(heap, oid).type = NameFile
           /\ Attr(heap, oid).classes = <<NameFile>>
           /\ Len(heap[oid].children) = 2
           /\ heap[heap[oid].children[1]].text = "body1"
           /\ heap[heap[oid].children[2]].text = "p2"
           /\ heap[doctree[DocOrder[1]]].children = <<oid>>

----------------------------------------------------------------------------
(* C7, C8, C9, C10: titles of simulation blocks *)

\* file blocks, numbered or not, with or without a subtitle; simulation
\* blocks of a registered and of an unregistered target; a reference to a
\* simulation block
TitleFileOptions ==
    {FileOpts("a", nonumber, FALSE, arguments, 0) :
        nonumber \in BOOLEAN, arguments \in {<<>>, <<Text("RC")>>}}
TitleSimOptions ==
    {SimOpts("", "a", FALSE, 0), SimOpts("s", "a", FALSE, 0),
     SimOpts("s", "ghost", FALSE, 0)}

NextTitles ==
    \/ \E opts \in TitleFileOptions : spice_fileDirective_run(opts, FALSE)
    \/ \E opts \in TitleSimOptions : spice_simulationDirective_run(opts, FALSE)
    \/ Role("ref", "s", FALSE, FALSE)
    \/ Transforms
    \/ PostTransforms
    \/ WriteAgain

SpecTitles == InitWith({FALSE}, {"html", "latex"}, MaxSteps) /\ [][NextTitles]_vars

\* the times pass name was applied to document doc
Applied(name, doc) ==
    Cardinality({i \in DOMAIN passes : passes[i] = <<name, doc>>})

\* the simulation blocks in the tree of document doc, in document order
SimBlocks(doc) == findall(heap, doctree[doc], {"spice_simulation_node"})

Registered(oid) == Attr(heap, oid).target_label \in DOMAIN registry

\* the warnings about an undefined label logged for document doc
UndefinedWarnings(doc) ==
    Cardinality({i \in DOMAIN warnings :
                    /\ warnings[i].msg = "undefined label"
                    /\ warnings[i].location = doc})

\* C7: once the simulation-block title pass has run over a document, each
\* of its simulation blocks with an unregistered target has caused one
\* warning (per run of the pass), kept its placeholder title and stayed
\* unresolved, and every simulation block with a registered target is
\* resolved, those after an unregistered one included.
C7_UndefinedTargetContinues ==
    \A doc \in DOMAIN doctree :
        LET blocks == SimBlocks(doc)
            runs == Applied("ResolveTitlesInspice_simulations", doc)
            undefined == {i \in DOMAIN blocks : ~Registered(blocks[i])}
        IN  runs > 0 =>
                /\ UndefinedWarnings(doc) = runs * Cardinality(undefined)
                /\ \A i \in DOMAIN blocks :
                       IF Registered(blocks[i])
                       THEN heap[blocks[i]].resolved_title
                       ELSE /\ ~heap[blocks[i]].resolved_title
                            /\ heap[blocks[i]].title.cls = "spice_simulation_title"

\* C8: a simulation block with an unregistered target aborts the build in
\* no phase: no exception escapes a pass, the late link-text pass included.
C8_UndefinedTargetNeverAborts ==
    (\E doc \in DOMAIN doctree :
        \E i \in DOMAIN SimBlocks(doc) : ~Registered(SimBlocks(doc)[i]))
        => raised = "none" /\ pc # "aborted"

\* the title text of block oid
TitleText(oid) == astext(heap[oid].title)

\* the text the title of a simulation block borrows from its target, the
\* registered block target: the file prefix, the display number of a numbered
\* file block, and (in the title node only) the subtitle in parentheses
Borrowed(target, with_subtitle) ==
    LET children == heap[target].title.children
    IN  " spice_file"
            \o (IF heap[target].cls = "spice_file_enumerable_node"
                THEN " " \o get_node_number(heap, target) ELSE "")
            \o (IF with_subtitle /\ Len(children) > 1
                THEN " (" \o astext(children[2]) \o ")" ELSE "")

\* the pass over document doc reached its i-th simulation block: no block
\* before it has an unregistered target
Reached(doc, i) ==
    \A k \in 1..(i - 1) : Registered(SimBlocks(doc)[k])

C10_TitleResolutionIdempotent ==
    [][\A oid \in DOMAIN heap :
           /\ heap[oid].cls \in FileClasses \cup {"spice_simulation_node"}
           /\ heap[oid].resolved_title
           => /\ heap'[oid].title = heap[oid].title
              /\ Attr(heap', oid).title = Attr(heap, oid).title
              /\ heap'[oid].resolved_title]_vars

\* both title passes ran twice over a document with a resolved file block
\* that has a subtitle and a resolved simulation block
C10_Witness ==
    /\ Applied("ResolveTitlesInspice_files", DocOrder[1]) = 2
    /\ Applied("ResolveTitlesInspice_simulations", DocOrder[1]) = 2
    /\ \E oid \in Range(findall(heap, doctree[DocOrder[1]], FileClasses)) :
           /\ heap[oid].resolved_title
           /\ heap[oid].title.cls = "title"
           /\ Len(heap[oid].title.children) > 1
    /\ \E i \in DOMAIN SimBlocks(DocOrder[1]) :
           /\ heap[SimBlocks(DocOrder[1])[i]].resolved_title
           /\ heap[SimBlocks(DocOrder[1])[i]].title.cls = "title"

----------------------------------------------------------------------------
(* C11, C12: the early reference pass *)

\* a file block, numbered or not, a simulation block, and references of
\* every type to either, with and without a text of the author's
ReferenceTypes == {"ref", "numref", "any"}

NextReferences ==
    \/ \E nonumber \in BOOLEAN :
           spice_fileDirective_run(FileOpts("a", nonumber, FALSE, <<>>, 0), FALSE)
    \/ spice_simulationDirective_run(SimOpts("s", "a", FALSE, 0), FALSE)
    \/ \E reftype \in ReferenceTypes, reftarget \in {"a", "s"},
          refexplicit \in BOOLEAN :
           Role(reftype, reftarget, refexplicit, FALSE)
    \/ Transforms
    \/ PostTransforms

SpecReferences ==
    InitWith({FALSE}, {"html", "latex"}, MaxReferences) /\ [][NextReferences]_vars

\* the step is the early reference pass over the current document
EarlyPass == pc = "UpdateReferencesToEnumerated" /\ pc' # pc

\* the cross-references of the current document that are not yet resolved
Xrefs == Range(findall(heap, doctree[docname], {"pending_xref"}))

\* the label is registered for a numbered file block
Numbered(label) ==
    /\ label \in DOMAIN registry
    /\ heap[registry[label].node].cls = "spice_file_enumerable_node"

\* C11: the early reference pass leaves the reference type and the inline
\* content of every cross-reference with a text of the author's as they
\* were, whatever its target.
C11_ExplicitTextKept ==
    [][EarlyPass =>
          \A oid \in Xrefs :
              Attr(heap, oid).refexplicit =>
                  /\ Attr(heap', oid).reftype = Attr(heap, oid).reftype
                  /\ heap'[oid].inline = heap[oid].inline
                  /\ heap'[oid].text = heap[oid].text]_vars

\* the early pass ran over a {ref} with a text of the author's to a
\* numbered file block, which is still a {ref}
C11_Witness ==
    /\ pc = "ReferencesResolver"
    /\ \E oid \in Xrefs :
           /\ Attr(heap, oid).refexplicit
           /\ Attr(heap, oid).reftype = "ref"
           /\ Numbered(Attr(heap, oid).reftarget)
           /\ heap[oid].inline.cls = "inline"
           /\ heap[oid].text = "see"

\* C12: the early reference pass rewrites a cross-reference that is not
\* numbered and has no text of the author's to the numbered variant, with its
\* inline content restyled, if and only if its target label is registered for
\* a numbered file block; every other such reference, and every numbered
\* one, is left unchanged.
C12_UpgradeIffNumbered ==
    [][EarlyPass =>
          /\ raised' = "none"
          /\ \A oid \in Xrefs :
                 ~Attr(heap, oid).refexplicit =>
                     IF /\ Attr(heap, oid).reftype # "numref"
                        /\ Numbered(Attr(heap, oid).reftarget)
                     THEN /\ Attr(heap', oid).reftype = "numref"
                          /\ heap'[oid].inline.cls = "literal"
                          /\ "std-numref" \in Range(heap'[oid].inline.classes)
                          /\ "std-ref" \notin Range(heap'[oid].inline.classes)
                     ELSE /\ Attr(heap', oid).reftype = Attr(heap, oid).reftype
                          /\ heap'[oid].inline = heap[oid].inline]_vars

----------------------------------------------------------------------------
(* C13: parse order of a simulation block and its target *)

\* the simulation blocks of the build: <<document, place in the document>>
AllSimBlocks ==
    UNION {{<<doc, i>> : i \in DOMAIN SimBlocks(doc)} : doc \in DOMAIN doctree}

\* block oid was built before the block registered for its target was
ParsedBeforeTarget(oid) ==
    Registered(oid) /\ oid < registry[Attr(heap, oid).target_label].node

----------------------------------------------------------------------------
(* C14: hidden blocks *)

\* the step is a directive of either kind, plain or start, run with the
\* hidden option
HiddenRun ==
    \/ \E opts \in LabelFileOptions :
           opts.hidden /\ spice_fileDirective_run(opts, FALSE)
    \/ \E opts \in LabelStartOptions :
           opts.hidden /\ spice_fileStartDirective_run(opts, FALSE)
    \/ \E opts \in LabelSimOptions :
           opts.hidden /\ spice_simulationDirective_run(opts, FALSE)
    \/ \E opts \in LabelSimOptions :
           opts.hidden /\ spice_simulationStartDirective_run(opts, FALSE)

\* the directive of the step returned no node and the tree of the current
\* document is as it was
NothingEmitted ==
    /\ last_call'.ret = <<>>
    /\ heap'[doctree[docname]].children = heap[doctree[docname]].children

\* the directive of the step registered its block, a hidden one, under its
\* label
HiddenRegistered ==
    LET label == last_call'.label
    IN  /\ DOMAIN registry' = DOMAIN registry \cup {label}
        /\ registry'[label].type = last_call'.name
        /\ registry'[label].docname = docname
        /\ Attr(heap', registry'[label].node).hidden
        /\ Attr(heap', registry'[label].node).label = label

\* C14 as stated: a directive returns zero or one node, and a block with the
\* hidden option and a label that is not registered yet is added to the
\* registry under its label and emits no node into the tree.
C14_HiddenRegistersOnly ==
    [][/\ last_call'.n # last_call.n => Len(last_call'.ret) <= 1
       /\ HiddenRun /\ last_call'.label \notin DOMAIN registry =>
              HiddenRegistered /\ NothingEmitted]_vars

\* C14, amended: as above, but a simulation directive run while
\* hide_spice_simulations is set registers nothing, hidden or not.
C14_HiddenRegistersUnlessSuppressed ==
    [][/\ last_call'.n # last_call.n => Len(last_call'.ret) <= 1
       /\ HiddenRun /\ last_call'.label \notin DOMAIN registry =>
              /\ NothingEmitted
              /\ IF hide_spice_simulations /\ last_call'.name \in SimulationNames
                 THEN registry' = registry
                 ELSE HiddenRegistered]_vars

\* a hidden simulation block is registered and its document is empty
C14_Witness ==
    /\ last_call.name = NameSim /\ last_call.ret = <<>>
    /\ last_call.label \in DOMAIN registry
    /\ registry[last_call.label].type = NameSim
    /\ Attr(heap, registry[last_call.label].node).hidden
    /\ heap[doctree[docname]].children = <<>>
    /\ warnings = <<>>

----------------------------------------------------------------------------
(* C15: the hide_spice_simulations flag *)

AllSimulationNames == {NameSim, NameSimStart, NameSimEnd}

\* C15: while hide_spice_simulations is set, a simulation directive, the
\* start and end directives included, returns no node and leaves the
\* registry, the gated registry and the tree as they were.
C15_HideFlagFrame ==
    [][/\ hide_spice_simulations
       /\ last_call'.n # last_call.n
       /\ last_call'.name \in AllSimulationNames
       => /\ last_call'.ret = <<>>
          /\ registry' = registry
          /\ gated_registry' = gated_registry
          /\ heap'[doctree[docname]].children
                 = heap[doctree[docname]].children]_vars

----------------------------------------------------------------------------
(* C16: the registry's snapshots *)

\* what the registry holds for a label: the entry and the node it refers to
Snapshot(h, reg, label) ==
    LET node == reg[label].node
    IN  [type |-> reg[label].type, docname |-> reg[label].docname,
         cls |-> h[node].cls, attributes |-> Attr(h, node),
         title |-> h[node].title, gated |-> h[node].gated,
         resolved_title |-> h[node].resolved_title,
         children |-> h[node].children]

\* the labels whose snapshot the step may update: those of the simulation
\* blocks of the current document, when the step is their title pass
UpdatedLabels ==
    IF pc = "ResolveTitlesInspice_simulations"
    THEN {Attr(heap, SimBlocks(docname)[i]).label : i \in DOMAIN SimBlocks(docname)}
    ELSE {}

\* C16: what the registry holds for a label of either kind stays as it was
\* registered when a merge or a title pass changes the live node; only the
\* simulation-block title pass, which stores the resolved node under its
\* label, changes it.
C16_SnapshotIndependent ==
    [][pc' # pc /\ pc # "read" =>
          \A label \in DOMAIN registry \ UpdatedLabels :
              Snapshot(heap', registry', label) = Snapshot(heap, registry, label)]_vars

----------------------------------------------------------------------------
(* C17: the order of the passes *)

\* the passes in the order the claim gives them, the host's resolver of
\* references at its place
PassOrder ==
    <<"CheckGatedDirectives", "MergeGatedspice_simulations",
      "MergeGatedspice_files", "UpdateReferencesToEnumerated",
      "ReferencesResolver", "ResolveTitlesInspice_files",
      "ResolveTitlesInspice_simulations", "ResolveLinkTextTospice_simulations">>

Rank(name) == CHOOSE r \in DOMAIN PassOrder : PassOrder[r] = name

\* the transforms of the read phase, and the first pass of the write phase
MergeRanks == {Rank("CheckGatedDirectives"), Rank("MergeGatedspice_simulations"),
               Rank("MergeGatedspice_files")}
EarlyRank == Rank("UpdateReferencesToEnumerated")

\* C17: for each document the validator runs before the mergers, the
\* mergers of every document run before any pass of the resolution phase, and
\* the passes of that phase run on a document in the order early reference
\* pass, file-block title pass, simulation-block title pass, late link-text
\* pass, each right after the one before it.
C17_PassOrder ==
    \A j \in DOMAIN passes :
        LET rank == Rank(passes[j][1])
        IN  /\ \A i \in 1..(j - 1) :
                   /\ passes[i][2] = passes[j][2] => Rank(passes[i][1]) < rank
                   /\ rank \in MergeRanks => Rank(passes[i][1]) \in MergeRanks
            /\ rank \notin {1, EarlyRank} =>
                   j > 1 /\ passes[j - 1] = <<PassOrder[rank - 1], passes[j][2]>>
            /\ rank = EarlyRank =>
                   /\ \E i \in 1..(j - 1) :
                          passes[i] = <<"MergeGatedspice_files", passes[j][2]>>
                   /\ \A doc \in DOMAIN doctree :
                          \E i \in 1..(j - 1) :
                              passes[i] = <<"MergeGatedspice_files", doc>>

\* a build of two documents went through every pass
C17_Witness ==
    /\ pc = "done"
    /\ Len(passes) = 16
    /\ passes[16] = <<"ResolveLinkTextTospice_simulations", DocOrder[2]>>
    /\ \E oid \in DOMAIN heap : heap[oid].resolved_title

----------------------------------------------------------------------------
(* C18: the registry and the tracker are scoped to one build *)

(* Builds: labelled file blocks, plain and gated, built and built again *)

NextBuilds ==
    \/ spice_fileDirective_run(FileOpts("a", FALSE, FALSE, <<>>, 0), FALSE)
    \/ spice_fileStartDirective_run(FileOpts("b", FALSE, FALSE, <<>>, 0), FALSE)
    \/ spice_fileEndDirective_run(FALSE)
    \/ Transforms
    \/ PostTransforms
    \/ NextBuild

SpecBuilds ==
    InitBuild({FALSE}, {"html"}, MaxBuildSteps, TRUE) /\ [][NextBuilds]_vars

\* the start and end tokens of the directives in source that lie in doc
RECURSIVE MarkerTokens(_, _)
MarkerTokens(source, doc) ==
    IF source = <<>> THEN <<>>
    ELSE LET e == Head(source)
             token == IF e.doc # doc THEN <<>>
                      ELSE IF e.name \in {NameFileStart, NameSimStart} THEN <<"S">>
                      ELSE IF e.name \in {NameFileEnd, NameSimEnd} THEN <<"E">>
                      ELSE <<>>
         IN  token \o MarkerTokens(Tail(source), doc)

\* the labels of the directives parsed so far in this build
SourceLabels == {builds.source[i].opts.label : i \in DOMAIN builds.source}

\* the source of this build is the source of the build before it
Unchanged == builds.previous # <<>> /\ builds.source = builds.previous[1].source

\* C18: in a following build the registry holds only labels parsed in this
\* build and the tracker only the tokens parsed in this build; once an
\* unchanged source is built again, the warnings (none, for a source that
\* gave none), the tracker records and the registered labels are those of
\* the build before
C18_BuildScoped ==
    builds.previous # <<>> =>
        /\ DOMAIN registry \subseteq SourceLabels
        /\ \A doc \in DOMAIN gated_registry :
               gated_registry[doc].sequence = MarkerTokens(builds.source, doc)
        /\ \A doc \in Docs \ DOMAIN gated_registry :
               MarkerTokens(builds.source, doc) = <<>>
        /\ (pc = "done" /\ Unchanged =>
               /\ warnings = builds.previous[1].warnings
               /\ gated_registry = builds.previous[1].gated_registry
               /\ DOMAIN registry = builds.previous[1].labels)

\* an unchanged source with a labelled gated pair, which gave no warning,
\* has been built again
C18_Witness ==
    /\ pc = "done" /\ Unchanged
    /\ builds.previous[1].warnings = <<>>
    /\ "b" \in builds.previous[1].labels
    /\ \E doc \in DOMAIN gated_registry : gated_registry[doc].sequence = <<"S", "E">>

----------------------------------------------------------------------------
(* C19: validation per kind *)

\* the S/E tokens that the markers of one kind recorded for a document,
\* read from the messages the tracker keeps with them
RECURSIVE KindTokens(_, _)
KindTokens(msg, kind) ==
    IF msg = <<>> THEN <<>>
    ELSE LET token == IF Head(msg)[1] = kind \o "-start" THEN <<"S">>
                      ELSE IF Head(msg)[1] = kind \o "-end" THEN <<"E">>
                      ELSE <<>>
         IN  token \o KindTokens(Tail(msg), kind)

KindSequence(doc, kind) ==
    IF doc \in DOMAIN gated_registry
    THEN KindTokens(gated_registry[doc].msg, kind) ELSE <<>>

\* C19: for a document with gated markers of both kinds, validation passes
\* exactly when the file markers alone and the simulation markers alone each
\* form a concatenation of SE pairs, whatever their interleaving.
C19_PerKindValidation ==
    Validated =>
        (raised = "none" <=> /\ IsPairs(KindSequence(docname, "spice_file"))
                             /\ IsPairs(KindSequence(docname, "spice_simulation")))

----------------------------------------------------------------------------
(* C20: several gated pairs in one sibling list *)

(* Pairs: unlabelled start and end directives of both kinds and plain
   paragraphs, all at the top level of their document *)

NextPairs ==
    \/ spice_fileStartDirective_run(FileOpts("", FALSE, FALSE, <<>>, 0), FALSE)
    \/ spice_fileEndDirective_run(FALSE)
    \/ spice_simulationStartDirective_run(SimOpts("", "a", FALSE, 0), FALSE)
    \/ spice_simulationEndDirective_run(FALSE)
    \/ Paragraph(FALSE)
    \/ Transforms

SpecPairs == InitWith({FALSE}, {"html"}, MaxPairSteps) /\ [][NextPairs]_vars

\* the markers recorded are disjoint pairs: each start is followed at once
\* by an end of its own kind
DisjointPairs(msg) ==
    /\ Len(msg) % 2 = 0
    /\ \A i \in DOMAIN msg :
           i % 2 = 1 =>
               \E kind \in {"spice_file", "spice_simulation"} :
                   /\ msg[i][1] = kind \o "-start"
                   /\ msg[i + 1][1] = kind \o "-end"

\* document doc holds k >= 1 disjoint gated pairs
HasPairs(doc) ==
    /\ doc \in DOMAIN gated_registry
    /\ DisjointPairs(gated_registry[doc].msg)

\* the merged blocks among the children of the root of doc, in order
MergedBlocks(doc) ==
    SelectSeq(heap[doctree[doc]].children,
              LAMBDA c : \/ heap[c].cls = "spice_simulation_node"
                         \/ /\ heap[c].cls \in FileClasses
                            /\ Attr(heap, c).type = NameFile)

\* the texts of the paragraphs of the lines strictly between from and to
ParagraphsBetween(from, to) ==
    [l \in 1..(to - from - 1) |-> "p" \o ToString(from + l)]

\* the line a child of the root of doc comes from: the i-th merged block
\* from the line of the i-th start, a paragraph from its own line, any
\* other node from no line
LineOf(doc, c) ==
    LET blocks == MergedBlocks(doc)
    IN  IF c \in Range(blocks)
        THEN gated_registry[doc].start[CHOOSE i \in DOMAIN blocks : blocks[i] = c]
        ELSE IF \E l \in 1..(MaxPairSteps + 1) : heap[c].text = "p" \o ToString(l)
        THEN CHOOSE l \in 1..(MaxPairSteps + 1) : heap[c].text = "p" \o ToString(l)
        ELSE 0

\* the pair of document doc that line l lies in, after its start
InPair(doc, l) ==
    \E i \in DOMAIN gated_registry[doc].start :
        gated_registry[doc].start[i] < l /\ l <= gated_registry[doc].end[i]

\* the merged document doc holds one merged block for each of its pairs, of
\* the kind of the pair and around the paragraphs between its start and its
\* end; what is left beside the blocks are the paragraphs outside the pairs,
\* all in the order of the source
PairsMerged(doc) ==
    LET gate == gated_registry[doc]
        kids == heap[doctree[doc]].children
        blocks == MergedBlocks(doc)
    IN  /\ Len(blocks) = Len(gate.start)
        /\ \A i \in DOMAIN blocks :
               /\ gate.msg[2 * i - 1][1] = Join(Attr(heap, blocks[i]).type) \o "-start"
               /\ [j \in DOMAIN heap[blocks[i]].children |->
                      heap[heap[blocks[i]].children[j]].text]
                      = ParagraphsBetween(gate.start[i], gate.end[i])
               /\ \A j \in DOMAIN heap[blocks[i]].children :
                      /\ heap[heap[blocks[i]].children[j]].cls = "paragraph"
                      /\ heap[heap[blocks[i]].children[j]].parent = blocks[i]
        /\ \A j \in DOMAIN kids :
               /\ LineOf(doc, kids[j]) > 0
               /\ ~InPair(doc, LineOf(doc, kids[j]))
               /\ j > 1 => LineOf(doc, kids[j - 1]) < LineOf(doc, kids[j])

\* the times node oid stands among the children of some node
Places(oid) ==
    Cardinality(UNION {{<<p, j>> : j \in {k \in DOMAIN heap[p].children :
                                              heap[p].children[k] = oid}} :
                       p \in DOMAIN heap})

----------------------------------------------------------------------------
(* C21: the frame of one merge *)

\* the merge of the pair that starts at node oid and ends at the first later
\* sibling of class E put one block of the classes B, with the label of the
\* start, where the start stood, took the siblings after it up to the end
\* marker out of the list and left the siblings before the start and after
\* the end marker as they were, each in its place
SpanOnly(oid, E, B) ==
    LET parent == heap[oid].parent
        kids == heap[parent].children
        after == heap'[parent].children
        i == IndexOf(heap, oid)
        j == SiblingEnd(heap, oid, E)
    IN  /\ Len(after) = Len(kids) - (j - i)
        /\ heap'[after[i]].cls \in B
        /\ Attr(heap', after[i]).label = Attr(heap, oid).label
        /\ \A k \in (i + 1)..j : kids[k] \notin Range(after)
        /\ \A k \in 1..(i - 1) :
               after[k] = kids[k] /\ heap'[kids[k]] = heap[kids[k]]
        /\ \A k \in (j + 1)..Len(kids) :
               after[k - (j - i)] = kids[k] /\ heap'[kids[k]] = heap[kids[k]]

\* C21: merging one gated pair changes the sibling list of the parent only
\* inside the span: the merged block stands where the start stood, the
\* siblings from the one after the start through the end marker are removed,
\* and every sibling before the start and after the end marker is unchanged
\* and keeps its place among the others.
C21_MergeFrame ==
    [][/\ (pc = "MergeGatedspice_simulations" /\ pc' # pc /\ OnePair =>
            \A oid \in Range(findall(heap, doctree[docname],
                                     {"spice_simulation_start_node"})) :
                SiblingEnd(heap, oid, "spice_simulation_end_node") # 0 =>
                    SpanOnly(oid, "spice_simulation_end_node",
                             {"spice_simulation_node"}))
       /\ (pc = "MergeGatedspice_files" /\ pc' # pc /\ OnePair =>
            \A oid \in Range(findall(heap, doctree[docname], FileClasses)) :
                heap[oid].gated /\ SiblingEnd(heap, oid, "spice_file_end_node") # 0 =>
                    SpanOnly(oid, "spice_file_end_node", FileClasses))]_vars

\* one pair around a paragraph, between a paragraph before it and a
\* paragraph after it, has been merged
C21_Witness ==
    /\ Merged(DocOrder[1])
    /\ GateSequence(DocOrder[1]) = <<"S", "E">>
    /\ LET kids == heap[doctree[DocOrder[1]]].children
       IN  /\ Len(kids) = 3
           /\ heap[kids[1]].text = "p1"
           /\ kids[2] \in Range(MergedBlocks(DocOrder[1]))
           /\ Len(heap[kids[2]].children) = 1
           /\ heap[heap[kids[2]].children[1]].text = "p3"
           /\ heap[kids[3]].text = "p5"

----------------------------------------------------------------------------
(* C22: the text of references to simulation blocks *)

(* LinkTexts: a numbered file block, a simulation block of it, a simulation
   block of an unregistered target, which ends the title pass where it
   stands, and references to the first simulation block *)

NextLinkTexts ==
    \/ spice_fileDirective_run(FileOpts("a", FALSE, FALSE, <<>>, 0), FALSE)
    \/ spice_simulationDirective_run(SimOpts("s", "a", FALSE, 0), FALSE)
    \/ spice_simulationDirective_run(SimOpts("", "ghost", FALSE, 0), FALSE)
    \/ Role("ref", "s", FALSE, FALSE)
    \/ Transforms
    \/ PostTransforms

SpecLinkTexts == InitWith({FALSE}, {"html"}, MaxLinkSteps) /\ [][NextLinkTexts]_vars

\* the late link-text pass has run over document doc to its end
LinkTextsDone(doc) ==
    /\ Applied("ResolveLinkTextTospice_simulations", doc) > 0
    /\ doc = docname => raised = "none"

\* the references of document doc whose target is registered for a
\* simulation block with a registered target
SimulationReferences(doc) ==
    {ref \in Range(findall(heap, doctree[doc], ReferenceClasses)) :
        LET label == Attr(heap, ref).reftarget
        IN  /\ label \in DOMAIN registry
            /\ heap[registry[label].node].cls = "spice_simulation_node"
            /\ Registered(registry[label].node)}

\* reference ref displays the composed title of the block it points to
DisplaysTitle(ref) ==
    LET block == registry[Attr(heap, ref).reftarget].node
        target == registry[Attr(heap, block).target_label].node
    IN  /\ heap[block].resolved_title
        /\ TitleText(block) = "spice_simulation to" \o Borrowed(target, TRUE)
        /\ heap[ref].text = TitleText(block)

\* C22: after the late link-text pass, every reference whose target is a
\* registered simulation block with a registered target displays the
\* composed title of that block, whether the title pass had resolved the
\* block or the late pass resolved it itself.
C22_LinkTextComposed ==
    \A doc \in DOMAIN doctree :
        LinkTextsDone(doc) => \A ref \in SimulationReferences(doc) : DisplaysTitle(ref)

\* the same for the references that carry the id of their target, which are
\* those to a block of their own document
C22_LinkTextComposedSameDocument ==
    \A doc \in DOMAIN doctree :
        LinkTextsDone(doc) =>
            \A ref \in SimulationReferences(doc) :
                Attr(heap, ref).refid # "" => DisplaysTitle(ref)

----------------------------------------------------------------------------
(* C23: each pass changes the nodes it owns *)

(* Owners: file blocks, plain and gated, simulation blocks of a registered
   and of an unregistered target, and references to a file block and to a
   simulation block *)

NextOwners ==
    \/ spice_fileDirective_run(FileOpts("a", FALSE, FALSE, <<>>, 0), FALSE)
    \/ spice_fileStartDirective_run(FileOpts("", FALSE, FALSE, <<>>, 0), FALSE)
    \/ spice_fileEndDirective_run(FALSE)
    \/ spice_simulationDirective_run(SimOpts("s", "a", FALSE, 0), FALSE)
    \/ spice_simulationDirective_run(SimOpts("", "ghost", FALSE, 0), FALSE)
    \/ \E reftarget \in {"a", "s"} : Role("ref", reftarget, FALSE, FALSE)
    \/ Transforms
    \/ PostTransforms

SpecOwners ==
    InitWith({FALSE}, {"html", "latex"}, MaxOwnerSteps) /\ [][NextOwners]_vars

\* node oid is a cross-reference, resolved by the host or not yet
IsReference(oid) == heap[oid].cls \in ReferenceClasses \cup {"pending_xref"}

\* the step changed node oid
Changed(oid) == heap'[oid] # heap[oid]

\* the step changed nothing of block oid but its title node, its title
\* attribute and its resolved flag
TitleOnly(oid) ==
    /\ [heap'[oid] EXCEPT !.title = heap[oid].title,
                          !.resolved_title = heap[oid].resolved_title,
                          !.attributes.title = heap[oid].attributes.title]
           = heap[oid]
    /\ heap'[oid].resolved_title

\* node oid is a gated start of the current document, a sibling after it up
\* to its end marker, or the parent of both
InGatedSpan(oid) ==
    \E start \in Range(findall(heap, doctree[docname], FileClasses)) :
        /\ heap[start].gated
        /\ \/ oid = start
           \/ oid = heap[start].parent
           \/ /\ heap[oid].parent = heap[start].parent
              /\ oid \in Range(heap[heap[start].parent].children)
              /\ IndexOf(heap, start) < IndexOf(heap, oid)
              /\ IndexOf(heap, oid) <= SiblingEnd(heap, start, "spice_file_end_node")

\* the step changed nothing of node oid but its content, in which
\* references stand where references stood
ReferencesReplaced(oid) ==
    /\ [heap'[oid] EXCEPT !.children = heap[oid].children] = heap[oid]
    /\ Len(heap'[oid].children) = Len(heap[oid].children)
    /\ \A k \in DOMAIN heap[oid].children :
           \/ heap'[oid].children[k] = heap[oid].children[k]
           \/ /\ IsReference(heap[oid].children[k])
              /\ heap'[heap'[oid].children[k]].cls \in ReferenceClasses

\* a pass of the mergers changes gated blocks and the siblings they enclose
MergerOwns ==
    pc \in {"MergeGatedspice_simulations", "MergeGatedspice_files"} /\ pc' # pc =>
        /\ registry' = registry
        /\ \A oid \in DOMAIN heap : Changed(oid) => InGatedSpan(oid)

\* a title pass changes the title and the resolved flag of the blocks of its
\* kind
TitlePassOwns ==
    /\ (pc = "ResolveTitlesInspice_files" /\ pc' # pc =>
            /\ registry' = registry
            /\ \A oid \in DOMAIN heap :
                   Changed(oid) => heap[oid].cls \in FileClasses /\ TitleOnly(oid))
    /\ (pc = "ResolveTitlesInspice_simulations" /\ pc' # pc =>
            /\ registry' = registry
            /\ \A oid \in DOMAIN heap :
                   Changed(oid) =>
                       heap[oid].cls = "spice_simulation_node" /\ TitleOnly(oid))

\* the step is a pass that rewrites references
ReferencePass ==
    /\ pc \in {"UpdateReferencesToEnumerated", "ResolveLinkTextTospice_simulations"}
    /\ pc' # pc

\* block oid is a simulation block, not yet resolved, with a registered
\* target, that a reference of the current document carries the id of
LazilyResolved(oid) ==
    /\ heap[oid].cls = "spice_simulation_node"
    /\ ~heap[oid].resolved_title
    /\ Registered(oid)
    /\ \E ref \in Range(findall(heap, doctree[docname], ReferenceClasses)) :
           /\ Attr(heap, ref).refid \in DOMAIN registry
           /\ registry[Attr(heap, ref).refid].node = oid

----------------------------------------------------------------------------
(* C24: the registry over one build *)

(* Entries: file and simulation directives that claim the same two labels,
   so that the second to claim one is a duplicate of either kind, a gated
   simulation block, whose merged block the title pass stores, and every
   transform and post-transform *)

NextEntries ==
    \/ \E label \in {"a", "s"} :
           spice_fileDirective_run(FileOpts(label, FALSE, FALSE, <<>>, 0), FALSE)
    \/ \E label \in {"a", "s"} :
           spice_simulationDirective_run(SimOpts(label, "a", FALSE, 0), FALSE)
    \/ spice_simulationStartDirective_run(SimOpts("s", "a", FALSE, 0), FALSE)
    \/ spice_simulationEndDirective_run(FALSE)
    \/ Transforms
    \/ PostTransforms

SpecEntries == InitWith({FALSE}, {"html"}, MaxEntrySteps) /\ [][NextEntries]_vars

SimulationTypes == {NameSim, NameSimStart}

\* the entry of label keeps its type and its document over the step
EntryKept(label) ==
    /\ label \in DOMAIN registry'
    /\ registry'[label].type = registry[label].type
    /\ registry'[label].docname = registry[label].docname

\* the step stores another node in the entry of label
Replaced(label) == registry'[label].node # registry[label].node

\* C24: in one build the registry only grows: over every step each label
\* registered stays registered with the type and the document recorded for
\* it, and the node of an entry is replaced only in an entry of a
\* simulation block, only by the simulation-block title pass, and by a
\* simulation block that carries that label.
C24_RegistryGrows ==
    [][\A label \in DOMAIN registry :
           /\ EntryKept(label)
           /\ Replaced(label) =>
                  /\ registry[label].type \in SimulationTypes
                  /\ pc = "ResolveTitlesInspice_simulations"
                  /\ heap'[registry'[label].node].cls = "spice_simulation_node"
                  /\ Attr(heap', registry'[label].node).label = label]_vars

\* a finished build with a file block a and a gated simulation block s whose
\* entry holds the merged block, resolved, that stands in the tree
C24_Witness ==
    /\ pc = "done"
    /\ {"a", "s"} \subseteq DOMAIN registry
    /\ registry["a"].type = NameFile
    /\ registry["s"].type = NameSimStart
    /\ heap[registry["s"].node].resolved_title
    /\ \E doc \in DOMAIN doctree :
           registry["s"].node \in Range(SimBlocks(doc))

----------------------------------------------------------------------------
(* C25: the type of the entry a title is composed from *)

(* Targets: a file block a, a simulation block s of a, and simulation
   blocks whose target is the simulation block s or an unregistered label *)

NextTargets ==
    \/ spice_fileDirective_run(FileOpts("a", FALSE, FALSE, <<>>, 0), FALSE)
    \/ spice_simulationDirective_run(SimOpts("s", "a", FALSE, 0), FALSE)
    \/ \E target \in {"s", "ghost"} :
           spice_simulationDirective_run(SimOpts("", target, FALSE, 0), FALSE)
    \/ Transforms
    \/ PostTransforms

SpecTargets == InitWith({FALSE}, {"html"}, MaxTargetSteps) /\ [][NextTargets]_vars

FileTypes == {NameFile, NameFileStart}

\* the entry the title of simulation block oid is composed from is that of
\* a file block
FileTarget(oid) ==
    /\ Registered(oid)
    /\ registry[Attr(heap, oid).target_label].type \in FileTypes

\* C25: the title of a simulation block is composed only from an entry of a
\* file block: a simulation block whose target is registered as a
\* simulation block stays unresolved with its placeholder title, as one with
\* an unregistered target does.
C25_ComposedFromFileEntriesOnly ==
    \A doc \in DOMAIN doctree :
        \A oid \in Range(SimBlocks(doc)) :
            ~FileTarget(oid) =>
                /\ ~heap[oid].resolved_title
                /\ heap[oid].title.cls = "spice_simulation_title"

\* the same for unregistered targets alone, which the code does keep
C25_UnregisteredTargetsUnresolved ==
    \A doc \in DOMAIN doctree :
        \A oid \in Range(SimBlocks(doc)) :
            ~Registered(oid) =>
                /\ ~heap[oid].resolved_title
                /\ heap[oid].title.cls = "spice_simulation_title"

----------------------------------------------------------------------------
(* C26: the document the link of a composed title is relative to *)

\* the link in the composed title of simulation block oid
TitleLink(oid) == heap[oid].title.children[2]

\* the link from document doc to the block registered in reg as label
LinkFrom(reg, doc, label) ==
    get_relative_uri(doc, reg[label].docname) \o "#" \o label

\* simulation block oid has a composed title
Composed(oid) == heap[oid].resolved_title /\ heap[oid].title.cls = "title"

\* the step resolves the title of simulation block oid of document doc
Resolves(oid, doc) ==
    /\ oid \in DOMAIN heap
    /\ ~heap[oid].resolved_title
    /\ heap'[oid].resolved_title
    /\ oid \in Range(findall(heap', doctree'[doc], {"spice_simulation_node"}))

====
